---- MODULE Spec2Model ----
(***************************************************************************)
(* Model of the devops-agent API clients.                                  *)
(*                                                                         *)
(*   ZentaoClient  (src/clients/zentao_client.py): session token, lazy     *)
(*                 login, one retry after a 401.                           *)
(*   SlackClient   (src/clients/slack_client.py): user / channel caches    *)
(*                 filled by a cursor-paginated scan, name resolution.     *)
(*   GitHubClient  (src/clients/github_client.py): project name lookup.    *)
(*                                                                         *)
(* Every coroutine is cut at its awaits: one action per resumption.        *)
(* Python values: None is the string "<None>", a str is a sequence of      *)
(* one-character strings where its characters matter and a TLA+ string     *)
(* where only its identity does, a dict is the sequence of its values in   *)
(* insertion order.                                                        *)
(***************************************************************************)
EXTENDS Integers, Sequences, FiniteSets, TLC

(***************************************************************************)
(* Bounds.                                                                 *)
(***************************************************************************)
\* Number of ZentaoClient operations in one run.
NumOps == 2

\* Name resolution: entries in a directory, characters in an entry's name,
\* characters in the name asked for.
MaxEntries == 2

MaxNameLen == 2

MaxQueryLen == 2

\* Slack directory: pages of a listing, and the number of calls of the
\* population routines in one run.
MaxPages == 2

NumCalls == 2

VARIABLES
    token,      \* ZentaoClient._token: None, "" or a token string
    zpc,        \* per operation: the await it is suspended at
    zcall,      \* per operation: the helper called and its arguments
    zlogins,    \* per operation: login calls (POST /tokens) it has made
    zsent,      \* per operation: data requests it has sent, in order
    zloginResp, \* per operation: login responses it has received, in order
    zresp,      \* per operation: data responses it has received, in order
    ztokSeen,   \* per operation: self._token when the operation was called
    zresult     \* per operation: what the caller got (value or exception)

zvars == <<token, zpc, zcall, zlogins, zsent, zloginResp, zresp, ztokSeen, zresult>>

VARIABLES
    rfn,        \* name resolution: the function called
    rprojects,  \* name resolution: the projects the GitHub backend lists
    rquery,     \* name resolution: the name asked for
    rpc,        \* name resolution: the await the call is suspended at
    rres        \* name resolution: the entry returned (id None: Python's None)

rvars == <<rfn, rprojects, rquery, rpc, rres>>

VARIABLES
    userDir,      \* Slack backend: the pages users.list answers with
    chanDir,      \* Slack backend: the pages conversations.list answers with
    endCursor,    \* Slack backend: the next_cursor it sends with a last page
    userCache,    \* SlackClient._user_cache.values(), in insertion order
    channelCache, \* SlackClient._channel_cache.values(), in insertion order
    spc,          \* per call: the await it is suspended at
    sfn,          \* per call: the SlackClient method called
    sarg,         \* per call: its name argument
    slist,        \* per call: cursors of the listing requests it has sent
    snext,        \* per call: next_cursor of the listing responses received
    safter,       \* per call: the routine's cache when the call ended
    sexc,         \* per call: the exception it raised
    sres          \* per call: the value it returned

svars == <<userDir, chanDir, endCursor, userCache, channelCache, spc, sfn, sarg, slist, snext, safter, sexc, sres>>

VARIABLES
    cfn,     \* request building: the client method called
    cargs,   \* request building: its arguments, with the backend's answer
    cpc,     \* request building: the await the method is suspended at
    cout     \* request building: the request it sent and the value it returned

cvars == <<cfn, cargs, cpc, cout>>

VARIABLES
    tfn,      \* tool call: the tool called
    targs,    \* tool call: its arguments
    tpc,      \* tool call: the await it is suspended at
    tlog,     \* tool call: the client calls it has made, in order
    tgot,     \* tool call: what those calls returned, in order
    ttarget,  \* tool call: its local target_channel
    tres      \* tool call: what the tool returned (value or exception)

tvars == <<tfn, targs, tpc, tlog, tgot, ttarget, tres>>

vars == <<zvars, rvars, svars, cvars, tvars>>

\* What the actions of one client leave alone.
notZentao == <<rvars, svars, cvars, tvars>>


notSlack == <<zvars, rvars, cvars, tvars>>

notBuild == <<zvars, rvars, svars, tvars>>

notTools == <<zvars, rvars, svars, cvars>>

(***************************************************************************)
(* Python values.                                                          *)
(***************************************************************************)
None == "<None>"

\* bool(v) of an Optional[str]: None and "" are falsy.
Truthy(v) == v \notin {None, ""}

(***************************************************************************)
(* The ZenTao backend, as the client sees it.                              *)
(***************************************************************************)
Ops == 1..NumOps

\* The three request helpers with one representative path and argument each.
CallList ==
    << [helper |-> "_get",  method |-> "GET",  path |-> "/products", arg |-> "limit=50"],
       [helper |-> "_post", method |-> "POST", path |-> "/bugs",     arg |-> "title=x"],
       [helper |-> "_put",  method |-> "PUT",  path |-> "/bugs/1",   arg |-> "status=y"] >>

Calls == { CallList[i] : i \in 1..Len(CallList) }

\* Concurrent runs: operation p calls the helpers in turn (_get, _post, _put, ...).
CallFor(p) == CallList[((p - 1) % Len(CallList)) + 1]

NoCall == [helper |-> None, method |-> None, path |-> None, arg |-> None]

Tokens == {"t1", "t2"}

Bodies == {"b1", "b2"}

\* e.response.status_code == 401
StatusUnauthorized == 401

\* Statuses the backend answers with: success, and failures other than 401.
SuccessStatuses == {200}

OtherErrorStatuses == {500}

\* What httpx hands back for one request: a response with a status, or a
\* transport failure (httpx.TimeoutException, httpx.ConnectError).
\* kind "response": status and body are the response's;
\* kind "transport": error names the httpx exception class.
DataResponses ==
    { [kind |-> "response", status |-> s, body |-> b, error |-> None] :
              s \in SuccessStatuses, b \in Bodies }
    \cup { [kind |-> "response", status |-> s, body |-> None, error |-> None] :
              s \in {StatusUnauthorized} \cup OtherErrorStatuses }
    \cup { [kind |-> "transport", status |-> 0, body |-> None, error |-> e] :
              e \in {"TimeoutException", "ConnectError"} }

\* Login responses: body is data.get("token"), None when the key is absent.
LoginResponses ==
    { [kind |-> "response", status |-> s, body |-> t, error |-> None] :
              s \in SuccessStatuses, t \in Tokens \cup {None, ""} }
    \cup { [kind |-> "response", status |-> s, body |-> None, error |-> None] :
              s \in {StatusUnauthorized} \cup OtherErrorStatuses }
    \cup { [kind |-> "transport", status |-> 0, body |-> None, error |-> e] :
              e \in {"TimeoutException", "ConnectError"} }

\* httpx.Response.is_success
IsSuccess(status) == status \in 200..299

(***************************************************************************)
(* Exceptions and results.                                                 *)
(*   type        the exception class                                       *)
(*   status      HTTPStatusError: e.response.status_code;                  *)
(*               ZentaoAPIError: its status_code attribute                 *)
(*   cause       class of the wrapped exception (DevOpsAgentError.cause)   *)
(*   causeStatus status of the wrapped HTTPStatusError                     *)
(***************************************************************************)
NoExc == [type |-> None, status |-> 0, cause |-> None, causeStatus |-> 0]

\* What awaiting a request raises (response.raise_for_status() included),
\* NoExc when it raises nothing.
HttpxError(r) ==
    IF r.kind = "transport"
    THEN [type |-> r.error, status |-> 0, cause |-> None, causeStatus |-> 0]
    ELSE IF ~IsSuccess(r.status)
    THEN [type |-> "HTTPStatusError", status |-> r.status, cause |-> None, causeStatus |-> 0]
    ELSE NoExc

\* ZentaoAPIError(message, cause=e): status_code keeps its default 0.
ZentaoAPIError(e) ==
    [type |-> "ZentaoAPIError", status |-> 0, cause |-> e.type, causeStatus |-> e.status]

ValueError == [type |-> "ValueError", status |-> 0, cause |-> None, causeStatus |-> 0]

\* except httpx.HTTPError: every httpx exception modelled here is one.
IsHttpxHTTPError(e) == e.type \in {"HTTPStatusError", "TimeoutException", "ConnectError"}

Pending == [kind |-> "pending", value |-> None, exc |-> NoExc]

Returned(v) == [kind |-> "return", value |-> v, exc |-> NoExc]

Raised(e) == [kind |-> "raise", value |-> None, exc |-> e]

(***************************************************************************)
(* ZentaoClient._ensure_token, _headers.                                   *)
(***************************************************************************)
\* if self._token: return      -- TRUE when the login request is sent
EnsureTokenNeedsLogin_Always(tok) == TRUE

EnsureTokenNeedsLogin(tok) == ~Truthy(tok)

\* The rest of _ensure_token, resumed with the login response r:
\* the new self._token and the exception raised (NoExc: returns normally).
EnsureTokenResume_NoTokenCheck(tok, r) ==
    LET e == HttpxError(r) IN
    IF e # NoExc
    THEN [token |-> tok, exc |-> IF IsHttpxHTTPError(e) THEN ZentaoAPIError(e) ELSE e]
    ELSE [token |-> r.body, exc |-> NoExc]

EnsureTokenResume(tok, r) ==
    LET e == HttpxError(r) IN
    IF e # NoExc
    THEN \* except httpx.HTTPError as e: raise ZentaoAPIError(..., cause=e)
         [token |-> tok, exc |-> IF IsHttpxHTTPError(e) THEN ZentaoAPIError(e) ELSE e]
    ELSE IF ~Truthy(r.body)
    THEN \* self._token = data.get("token"); raise ValueError: not an
         \* httpx.HTTPError, so the except clause lets it through
         [token |-> r.body, exc |-> ValueError]
    ELSE [token |-> r.body, exc |-> NoExc]

\* {"Token": self._token or ""}
Headers(tok) == IF Truthy(tok) THEN tok ELSE ""

Request(call, tok) ==
    [method |-> call.method, path |-> call.path, arg |-> call.arg, Token |-> Headers(tok)]

(***************************************************************************)
(* _get / _post / _put: the three helpers are the same code but for the    *)
(* HTTP method.                                                            *)
(***************************************************************************)
\* except httpx.HTTPStatusError as e: if e.response.status_code == 401
NeedsRelogin_AnyStatusError(e) == e.type = "HTTPStatusError"

NeedsRelogin(e) == e.type = "HTTPStatusError" /\ e.status = StatusUnauthorized

\* self._token = None
TokenAfter401_Kept(tok) == tok

TokenAfter401(tok) == None

\* What the helper hands its caller for the retried request's response:
\* nothing catches inside the except block.
RetryResult_NoRaiseForStatus(r) ==
    IF r.kind = "transport" THEN Raised(HttpxError(r)) ELSE Returned(r.body)

RetryResult(r) ==
    IF HttpxError(r) # NoExc THEN Raised(HttpxError(r)) ELSE Returned(r.body)

\* The error of a failed re-login inside the except block.
ReloginFailure_Original(first, e) == HttpxError(first)

ReloginFailure(first, e) == e

\* No helper has been called.
ZNoCalls ==
    /\ zpc = [p \in Ops |-> "init"]
    /\ zcall = [p \in Ops |-> NoCall]
    /\ zlogins = [p \in Ops |-> 0]
    /\ zsent = [p \in Ops |-> <<>>]
    /\ zloginResp = [p \in Ops |-> <<>>]
    /\ zresp = [p \in Ops |-> <<>>]
    /\ ztokSeen = [p \in Ops |-> None]
    /\ zresult = [p \in Ops |-> Pending]

\* __init__: self._token = None
ZInit == token = None /\ ZNoCalls

\* The actions of a helper call say what the call does to the client; a
\* specification adds what else it leaves unchanged.
\* The caller invokes _get/_post/_put: _ensure_token up to its await, or,
\* with a token, on to the await of the first data request.
ZCall(p, c) ==
    /\ zpc[p] = "init"
    /\ \A q \in Ops : q < p => zpc[q] # "init"
    /\ zcall' = [zcall EXCEPT ![p] = c]
    /\ ztokSeen' = [ztokSeen EXCEPT ![p] = token]
    /\ IF EnsureTokenNeedsLogin(token)
       THEN /\ zlogins' = [zlogins EXCEPT ![p] = @ + 1]
            /\ zpc' = [zpc EXCEPT ![p] = "login1"]
            /\ UNCHANGED zsent
       ELSE /\ zsent' = [zsent EXCEPT ![p] = Append(@, Request(c, token))]
            /\ zpc' = [zpc EXCEPT ![p] = "req1"]
            /\ UNCHANGED zlogins
    /\ UNCHANGED <<token, zloginResp, zresp, zresult>>

\* The first login answers: _ensure_token finishes, and on success the
\* first data request goes out.
ZLoginResponse(p, r) ==
    /\ zpc[p] = "login1"
    /\ zloginResp' = [zloginResp EXCEPT ![p] = Append(@, r)]
    /\ LET o == EnsureTokenResume(token, r) IN
       /\ token' = o.token
       /\ IF o.exc # NoExc
          THEN /\ zresult' = [zresult EXCEPT ![p] = Raised(o.exc)]
               /\ zpc' = [zpc EXCEPT ![p] = "done"]
               /\ UNCHANGED zsent
          ELSE /\ zsent' = [zsent EXCEPT ![p] = Append(@, Request(zcall[p], o.token))]
               /\ zpc' = [zpc EXCEPT ![p] = "req1"]
               /\ UNCHANGED zresult
    /\ UNCHANGED <<zcall, zlogins, zresp, ztokSeen>>

\* The first data request answers: return, raise, or on a 401 clear the
\* token and call _ensure_token again up to its await.
ZFirstResponse(p, r) ==
    /\ zpc[p] = "req1"
    /\ zresp' = [zresp EXCEPT ![p] = Append(@, r)]
    /\ LET e == HttpxError(r) IN
       IF e = NoExc
       THEN /\ zresult' = [zresult EXCEPT ![p] = Returned(r.body)]
            /\ zpc' = [zpc EXCEPT ![p] = "done"]
            /\ UNCHANGED <<token, zlogins, zsent>>
       ELSE IF NeedsRelogin(e)
       THEN LET t == TokenAfter401(token) IN
            /\ token' = t
            /\ IF EnsureTokenNeedsLogin(t)
               THEN /\ zlogins' = [zlogins EXCEPT ![p] = @ + 1]
                    /\ zpc' = [zpc EXCEPT ![p] = "login2"]
                    /\ UNCHANGED zsent
               ELSE /\ zsent' = [zsent EXCEPT ![p] = Append(@, Request(zcall[p], t))]
                    /\ zpc' = [zpc EXCEPT ![p] = "req2"]
                    /\ UNCHANGED zlogins
            /\ UNCHANGED zresult
       ELSE /\ zresult' = [zresult EXCEPT ![p] = Raised(e)]
            /\ zpc' = [zpc EXCEPT ![p] = "done"]
            /\ UNCHANGED <<token, zlogins, zsent>>
    /\ UNCHANGED <<zcall, zloginResp, ztokSeen>>

\* The re-login answers: on success the request is sent again.
ZReloginResponse(p, r) ==
    /\ zpc[p] = "login2"
    /\ zloginResp' = [zloginResp EXCEPT ![p] = Append(@, r)]
    /\ LET o == EnsureTokenResume(token, r) IN
       /\ token' = o.token
       /\ IF o.exc # NoExc
          THEN /\ zresult' = [zresult EXCEPT ![p] =
                                  Raised(ReloginFailure(zresp[p][1], o.exc))]
               /\ zpc' = [zpc EXCEPT ![p] = "done"]
               /\ UNCHANGED zsent
          ELSE /\ zsent' = [zsent EXCEPT ![p] = Append(@, Request(zcall[p], o.token))]
               /\ zpc' = [zpc EXCEPT ![p] = "req2"]
               /\ UNCHANGED zresult
    /\ UNCHANGED <<zcall, zlogins, zresp, ztokSeen>>

\* The retried request answers: return its payload or raise its error.
ZRetryResponse(p, r) ==
    /\ zpc[p] = "req2"
    /\ zresp' = [zresp EXCEPT ![p] = Append(@, r)]
    /\ zresult' = [zresult EXCEPT ![p] = RetryResult(r)]
    /\ zpc' = [zpc EXCEPT ![p] = "done"]
    /\ UNCHANGED <<token, zcall, zlogins, zsent, zloginResp, ztokSeen>>

\* No operation of the client is suspended.
ZQuiet == \A q \in Ops : zpc[q] \in {"init", "done"}

(***************************************************************************)
(* Python str operations on sequences of characters.                       *)
(***************************************************************************)
\* Characters of directory names and of the names asked for.
EntryChars == {"a", "B"}

QueryChars == {"a", "B", "#", " "}

Whitespace == {" "}

\* All strings over chars of length at most n.
Strings(chars, n) == UNION { [1..k -> chars] : k \in 0..n }

LowerChar(c) == IF c = "A" THEN "a" ELSE IF c = "B" THEN "b" ELSE c

\* str.lower()
Lower(s) == [i \in 1..Len(s) |-> LowerChar(s[i])]

RECURSIVE LStrip(_, _)
\* str.lstrip(chars)
LStrip(s, chars) ==
    IF s # <<>> /\ Head(s) \in chars THEN LStrip(Tail(s), chars) ELSE s

RECURSIVE RStrip(_, _)
\* str.rstrip(chars)
RStrip(s, chars) ==
    IF s # <<>> /\ s[Len(s)] \in chars THEN RStrip(SubSeq(s, 1, Len(s) - 1), chars) ELSE s

\* str.strip()
Strip(s) == RStrip(LStrip(s, Whitespace), Whitespace)

\* needle in hay
Contains(needle, hay) ==
    \E i \in 1..(Len(hay) - Len(needle) + 1) : SubSeq(hay, i, i + Len(needle) - 1) = needle

\* The first index of a for loop's iteration that is in S.
FirstOf(S) == CHOOSE i \in S : \A j \in S : i <= j

(***************************************************************************)
(* SlackClient.resolve_channel, after _load_all_channels: cache is         *)
(* self._channel_cache.values() in insertion order.                        *)
(***************************************************************************)
NoChannel == [id |-> None, name |-> <<>>]

\* name.lstrip("#").lower().strip()
ChannelNameClean(name) == Strip(Lower(LStrip(name, {"#"})))

ChannelExact(cache, q) == { i \in 1..Len(cache) : Lower(cache[i].name) = q }

ChannelFuzzy(cache, q) == { i \in 1..Len(cache) : Contains(q, Lower(cache[i].name)) }

ResolveChannel_FuzzyFirst(cache, name) ==
    LET q == ChannelNameClean(name) IN
    IF q = <<>> THEN NoChannel
    ELSE IF ChannelFuzzy(cache, q) # {} THEN cache[FirstOf(ChannelFuzzy(cache, q))]
    ELSE NoChannel

ResolveChannel(cache, name) ==
    LET q == ChannelNameClean(name) IN
    IF q = <<>> THEN NoChannel
    ELSE IF ChannelExact(cache, q) # {} THEN cache[FirstOf(ChannelExact(cache, q))]
    ELSE IF ChannelFuzzy(cache, q) # {} THEN cache[FirstOf(ChannelFuzzy(cache, q))]
    ELSE NoChannel

(***************************************************************************)
(* SlackClient.find_user_by_name, after _load_all_users.                   *)
(***************************************************************************)
NoUser == [id |-> None, name |-> <<>>, real_name |-> <<>>, display_name |-> <<>>]

\* name.lower().strip()
UserNameLower(name) == Strip(Lower(name))

UserExact(cache, q) ==
    { i \in 1..Len(cache) :
        q \in {Lower(cache[i].real_name), Lower(cache[i].display_name), Lower(cache[i].name)} }

UserFuzzy(cache, q) ==
    { i \in 1..Len(cache) :
        \/ Contains(q, Lower(cache[i].real_name))
        \/ Contains(q, Lower(cache[i].display_name))
        \/ Contains(q, Lower(cache[i].name)) }

FindUserByName(cache, name) ==
    LET q == UserNameLower(name) IN
    IF UserExact(cache, q) # {} THEN cache[FirstOf(UserExact(cache, q))]
    ELSE IF UserFuzzy(cache, q) # {} THEN cache[FirstOf(UserFuzzy(cache, q))]
    ELSE NoUser

(***************************************************************************)
(* GitHubClient.get_project_by_name, after list_projects returned.         *)
(***************************************************************************)
NoProject == [id |-> None, title |-> <<>>]

\* name.lower().strip()
ProjectNameLower(name) == Strip(Lower(name))

ProjectExact(projects, q) == { i \in 1..Len(projects) : Lower(projects[i].title) = q }

ProjectFuzzy(projects, q) == { i \in 1..Len(projects) : Contains(q, Lower(projects[i].title)) }

GetProjectByName(projects, name) ==
    LET q == ProjectNameLower(name) IN
    IF ProjectExact(projects, q) # {} THEN projects[FirstOf(ProjectExact(projects, q))]
    ELSE IF ProjectFuzzy(projects, q) # {} THEN projects[FirstOf(ProjectFuzzy(projects, q))]
    ELSE NoProject

(***************************************************************************)
(* Name resolution applied to bounded directories and names.               *)
(***************************************************************************)
Ids == <<"I1", "I2", "I3", "I4">>

\* Channel names and project titles are never empty.
EntryNames == Strings(EntryChars, MaxNameLen) \ {<<>>}

Queries == Strings(QueryChars, MaxQueryLen)

\* A channel cache: a dict keyed by id, so ids are distinct.
ChannelCaches ==
    UNION { { [i \in 1..k |-> [id |-> Ids[i], name |-> f[i]]] : f \in [1..k -> EntryNames] } :
            k \in 0..MaxEntries }

\* A list of projects as list_projects returns it.
ProjectLists ==
    UNION { { [i \in 1..k |-> [id |-> Ids[i], title |-> f[i]]] : f \in [1..k -> EntryNames] } :
            k \in 0..MaxEntries }

\* Users with their three names: handle, real name, display name (which
\* Slack leaves empty when the user has set none).
UserCatalogue ==
    { [id |-> "U1", name |-> <<"a", "B">>, real_name |-> <<"a", " ", "B">>, display_name |-> <<>>],
      [id |-> "U2", name |-> <<"B">>, real_name |-> <<"B", "a">>, display_name |-> <<"a">>],
      [id |-> "U3", name |-> <<"a", "a">>, real_name |-> <<"a">>, display_name |-> <<"B", "B">>],
      [id |-> "U4", name |-> <<"B", "a", "B">>, real_name |-> <<"B", "B">>, display_name |-> <<"a", "B">>] }

\* A user cache: a dict keyed by id, so ids are distinct.
UserCaches ==
    UNION { { f \in [1..k -> UserCatalogue] : \A i, j \in 1..k : i # j => f[i].id # f[j].id } :
            k \in 0..MaxEntries }

(***************************************************************************)
(* The Slack backend: users.list and conversations.list answer one page    *)
(* per request, with the cursor of the next page.                          *)
(***************************************************************************)
SCalls == 1..NumCalls

\* Members as users.list returns them: U3 is deleted, U4 is a bot.
Members ==
    { [id |-> u.id, name |-> u.name, real_name |-> u.real_name,
       display_name |-> u.display_name,
       deleted |-> (u.id = "U3"), is_bot |-> (u.id = "U4")] : u \in UserCatalogue }

Channels ==
    { [id |-> "C1", name |-> <<"a">>],
      [id |-> "C2", name |-> <<"a", "B">>] }

\* Pages of a listing: the empty page, every page of one entry and pages
\* of two entries.
UserPages ==
    {<<>>} \cup { <<m>> : m \in Members }
           \cup { <<m, n>> : m \in {u \in Members : u.id = "U1"}, n \in {u \in Members : u.id # "U1"} }

ChanPages ==
    {<<>>} \cup { <<ch>> : ch \in Channels }
           \cup { <<ch, d>> : ch \in Channels, d \in Channels }

\* Every directory of 1..MaxPages pages.
DirsOf(pages) == UNION { [1..n -> pages] : n \in 1..MaxPages }

UserDirs == DirsOf(UserPages)

ChanDirs == DirsOf(ChanPages)

\* The opaque cursor of page k >= 2.
Cursors == <<"cur2", "cur3", "cur4", "cur5">>

CursorTo(k) == Cursors[k - 1]

\* The page a request asks for: the first one without a cursor.
PageAt(cursor) ==
    IF cursor = None THEN 1 ELSE CHOOSE k \in 2..(Len(Cursors) + 1) : CursorTo(k) = cursor

\* next_cursor of the last page: the key is absent, or it is "".
EndCursors == {None, ""}

\* next_cursor the backend sends with page k of dir.
NextCursor(dir, k) == IF k < Len(dir) THEN CursorTo(k + 1) ELSE endCursor

(***************************************************************************)
(* SlackClient._load_all_users, _load_all_channels.                        *)
(***************************************************************************)
\* if self._user_cache: return
CachePopulated_Never(cache) == FALSE

CachePopulated(cache) == cache # <<>>

\* cache[rec["id"]] = rec on a dict: a new key goes last, a known key keeps
\* its place.
DictSet_Reinsert(cache, rec) == Append(SelectSeq(cache, LAMBDA e : e.id # rec.id), rec)

DictSet(cache, rec) ==
    IF \E i \in 1..Len(cache) : cache[i].id = rec.id
    THEN [i \in 1..Len(cache) |-> IF cache[i].id = rec.id THEN rec ELSE cache[i]]
    ELSE Append(cache, rec)

\* if user.get("deleted") or user.get("is_bot"): continue
SkipUser_DeletedOnly(u) == u.deleted

SkipUser(u) == u.deleted \/ u.is_bot

UserRecord(u) ==
    [id |-> u.id, name |-> u.name, real_name |-> u.real_name, display_name |-> u.display_name]

RECURSIVE StoreUsers(_, _)
\* for user in response.get("members", [])
StoreUsers(cache, members) ==
    IF members = <<>> THEN cache
    ELSE StoreUsers(IF SkipUser(Head(members)) THEN cache
                    ELSE DictSet(cache, UserRecord(Head(members))),
                    Tail(members))

ChannelRecord(ch) == [id |-> ch.id, name |-> ch.name]

RECURSIVE StoreChannels(_, _)
\* for ch in response.get("channels", [])
StoreChannels(cache, channels) ==
    IF channels = <<>> THEN cache
    ELSE StoreChannels(DictSet(cache, ChannelRecord(Head(channels))), Tail(channels))

\* kwargs of a listing request: if cursor: kwargs["cursor"] = cursor
\* (None: the request carries no cursor).
RequestCursor_Dropped(cursor) == None

RequestCursor(cursor) == IF Truthy(cursor) THEN cursor ELSE None

\* if not cursor: break
ScanContinues(cursor) == Truthy(cursor)

\* The cache after `except SlackApiError: ... raise`: nothing is undone.
CacheOnFailure_RolledBack(cache) == <<>>

CacheOnFailure(cache) == cache

\* An Optional[str] whose characters matter: None, or a string.
OptNone == [none |-> TRUE, chars |-> <<>>]

OptStr(chars) == [none |-> FALSE, chars |-> chars]

\* A call that has returned no value (yet), or None from a _load_all_*.
SNoResult == [kind |-> "none"]

RECURSIVE Join(_, _)
\* sep.join(strs)
Join(strs, sep) ==
    IF strs = <<>> THEN <<>>
    ELSE IF Len(strs) = 1 THEN strs[1]
    ELSE strs[1] \o sep \o Join(Tail(strs), sep)

\* available = [f"#{c['name']}" for c in self._channel_cache.values()]
AvailableChannels_NoPrefix(cache) == [i \in 1..Len(cache) |-> cache[i].name]

AvailableChannels(cache) == [i \in 1..Len(cache) |-> <<"#">> \o cache[i].name]

\* The literals of the message, one element per character (a character
\* outside ASCII is written as its code point).
ListSeparator == <<"U+3001">>

NoneAvailable == <<"U+65E0">>

MsgBeforeName == <<"U+9891", "U+9053", " ", "'">>

MsgAfterName ==
    <<"'", " ", "U+4E0D", "U+5B58", "U+5728", "U+6216", " ", "B", "o", "t", " ",
      "U+672A", "U+52A0", "U+5165", "U+8BE5", "U+9891", "U+9053", "U+3002", "\n">>

MsgBeforeList == <<"U+5F53", "U+524D", "U+53EF", "U+7528", "U+9891", "U+9053", ":", " ">>

AvailableStr(cache) ==
    IF AvailableChannels(cache) # <<>>
    THEN Join(AvailableChannels(cache), ListSeparator)
    ELSE NoneAvailable

\* error_msg of validate_and_resolve_channel.
ChannelErrorMsg(name, cache) ==
    MsgBeforeName \o name \o MsgAfterName \o MsgBeforeList \o AvailableStr(cache)

\* return ch["id"], None
ValidateFound(ch) == [id |-> ch.id, error |-> OptNone]

\* return None, error_msg
ValidateNotFound_NoMessage(name, cache) == [id |-> None, error |-> OptNone]

ValidateNotFound(name, cache) == [id |-> None, error |-> OptStr(ChannelErrorMsg(name, cache))]

\* What method fn returns once its _load_all_users has returned.
UsersResult(fn, name, cache) ==
    IF fn = "find_user_by_name" THEN FindUserByName(cache, name)
    ELSE IF fn = "list_workspace_members" THEN [members |-> cache]
    ELSE SNoResult

\* What method fn returns once its (last) _load_all_channels has returned;
\* again: the one that returned is the second load of
\* validate_and_resolve_channel, after resolve_channel found nothing.
ChannelsResult(fn, name, cache, again) ==
    IF fn = "resolve_channel" THEN ResolveChannel(cache, name)
    ELSE IF fn = "validate_and_resolve_channel"
         THEN IF ~again /\ ResolveChannel(cache, name) # NoChannel
              THEN ValidateFound(ResolveChannel(cache, name))
              ELSE ValidateNotFound(name, cache)
         ELSE SNoResult

SBlank ==
    /\ userCache = <<>>
    /\ channelCache = <<>>
    /\ spc = [c \in SCalls |-> "init"]
    /\ sfn = [c \in SCalls |-> None]
    /\ sarg = [c \in SCalls |-> <<>>]
    /\ slist = [c \in SCalls |-> <<>>]
    /\ snext = [c \in SCalls |-> <<>>]
    /\ safter = [c \in SCalls |-> <<>>]
    /\ sexc = [c \in SCalls |-> None]
    /\ sres = [c \in SCalls |-> SNoResult]

\* A directory with two pages, for the listing that a run does not vary.
FixedUserDir == <<<<CHOOSE m \in Members : m.id = "U1">>, <<CHOOSE m \in Members : m.id = "U3">>>>

FixedChanDir == <<<<CHOOSE ch \in Channels : ch.id = "C1">>, <<CHOOSE ch \in Channels : ch.id = "C2">>>>

SInit ==
    /\ \/ userDir \in UserDirs /\ chanDir = FixedChanDir
       \/ userDir = FixedUserDir /\ chanDir \in ChanDirs
    /\ endCursor \in EndCursors
    /\ SBlank

\* The Slack client is not in use.
SIdle ==
    /\ userDir = FixedUserDir
    /\ chanDir = FixedChanDir
    /\ endCursor = ""
    /\ SBlank

\* Method fn(name) is called and awaits _load_all_users: the routine
\* returns at once, or sends its first request.
SStartUsers(c, fn, name) ==
    /\ spc[c] = "init"
    /\ \A d \in SCalls : d < c => spc[d] # "init"
    /\ sfn' = [sfn EXCEPT ![c] = fn]
    /\ sarg' = [sarg EXCEPT ![c] = name]
    /\ IF CachePopulated(userCache)
       THEN /\ spc' = [spc EXCEPT ![c] = "done"]
            /\ safter' = [safter EXCEPT ![c] = userCache]
            /\ sres' = [sres EXCEPT ![c] = UsersResult(fn, name, userCache)]
            /\ UNCHANGED slist
       ELSE /\ spc' = [spc EXCEPT ![c] = "users_list"]
            /\ slist' = [slist EXCEPT ![c] = <<RequestCursor(None)>>]
            /\ UNCHANGED <<safter, sres>>
    /\ UNCHANGED <<userDir, chanDir, endCursor, userCache, channelCache, snext, sexc>>
    /\ UNCHANGED notSlack

\* _load_all_users is called.
SLoadAllUsers(c) == SStartUsers(c, "_load_all_users", <<>>)

\* find_user_by_name is called.
SFindUserByName(c, name) == SStartUsers(c, "find_user_by_name", name)

\* list_workspace_members is called.
SListWorkspaceMembers(c) == SStartUsers(c, "list_workspace_members", <<>>)

\* users.list answers with page k: store the page, then stop (and let the
\* calling method finish) or ask for the next page.
SUsersListPage(c) ==
    /\ spc[c] = "users_list"
    /\ LET k == PageAt(slist[c][Len(slist[c])])
           cache == StoreUsers(userCache, userDir[k])
           nxt == NextCursor(userDir, k)
       IN /\ userCache' = cache
          /\ snext' = [snext EXCEPT ![c] = Append(@, nxt)]
          /\ IF ~ScanContinues(nxt)
             THEN /\ spc' = [spc EXCEPT ![c] = "done"]
                  /\ safter' = [safter EXCEPT ![c] = cache]
                  /\ sres' = [sres EXCEPT ![c] = UsersResult(sfn[c], sarg[c], cache)]
                  /\ UNCHANGED slist
             ELSE /\ slist' = [slist EXCEPT ![c] = Append(@, RequestCursor(nxt))]
                  /\ UNCHANGED <<spc, safter, sres>>
    /\ UNCHANGED <<userDir, chanDir, endCursor, channelCache, sfn, sarg, sexc>>
    /\ UNCHANGED notSlack

\* users.list fails: the SlackApiError is logged and raised again, through
\* the calling method.
SUsersListFails(c) ==
    /\ spc[c] = "users_list"
    /\ spc' = [spc EXCEPT ![c] = "failed"]
    /\ sexc' = [sexc EXCEPT ![c] = "SlackApiError"]
    /\ userCache' = CacheOnFailure(userCache)
    /\ safter' = [safter EXCEPT ![c] = CacheOnFailure(userCache)]
    /\ UNCHANGED <<userDir, chanDir, endCursor, channelCache, sfn, sarg, slist, snext, sres>>
    /\ UNCHANGED notSlack

\* A _load_all_channels of call c has returned with the cache as given:
\* the calling method finishes, or validate_and_resolve_channel, having
\* resolved nothing from an empty cache, starts its second load.
SChannelsLoaded(c, fn, name, cache, again) ==
    IF /\ fn = "validate_and_resolve_channel" /\ ~again
       /\ ResolveChannel(cache, name) = NoChannel
       /\ ~CachePopulated(cache)
    THEN /\ spc' = [spc EXCEPT ![c] = "conversations_list_again"]
         /\ slist' = [slist EXCEPT ![c] = Append(@, RequestCursor(None))]
         /\ UNCHANGED <<safter, sres>>
    ELSE /\ spc' = [spc EXCEPT ![c] = "done"]
         /\ safter' = [safter EXCEPT ![c] = cache]
         /\ sres' = [sres EXCEPT ![c] = ChannelsResult(fn, name, cache, again)]
         /\ UNCHANGED slist

\* Method fn(name) is called and awaits _load_all_channels: the routine
\* returns at once, or sends its first request.
SStartChannels(c, fn, name) ==
    /\ spc[c] = "init"
    /\ \A d \in SCalls : d < c => spc[d] # "init"
    /\ sfn' = [sfn EXCEPT ![c] = fn]
    /\ sarg' = [sarg EXCEPT ![c] = name]
    /\ IF CachePopulated(channelCache)
       THEN SChannelsLoaded(c, fn, name, channelCache, FALSE)
       ELSE /\ spc' = [spc EXCEPT ![c] = "conversations_list"]
            /\ slist' = [slist EXCEPT ![c] = <<RequestCursor(None)>>]
            /\ UNCHANGED <<safter, sres>>
    /\ UNCHANGED <<userDir, chanDir, endCursor, userCache, channelCache, snext, sexc>>
    /\ UNCHANGED notSlack

\* _load_all_channels is called.
SLoadAllChannels(c) == SStartChannels(c, "_load_all_channels", <<>>)

\* resolve_channel is called.
SResolveChannel(c, name) == SStartChannels(c, "resolve_channel", name)

\* validate_and_resolve_channel is called.
SValidateAndResolveChannel(c, name) == SStartChannels(c, "validate_and_resolve_channel", name)

\* conversations.list answers with page k.
SConversationsListPage(c) ==
    /\ spc[c] \in {"conversations_list", "conversations_list_again"}
    /\ LET k == PageAt(slist[c][Len(slist[c])])
           cache == StoreChannels(channelCache, chanDir[k])
           nxt == NextCursor(chanDir, k)
       IN /\ channelCache' = cache
          /\ snext' = [snext EXCEPT ![c] = Append(@, nxt)]
          /\ IF ~ScanContinues(nxt)
             THEN SChannelsLoaded(c, sfn[c], sarg[c], cache, spc[c] = "conversations_list_again")
             ELSE /\ slist' = [slist EXCEPT ![c] = Append(@, RequestCursor(nxt))]
                  /\ UNCHANGED <<spc, safter, sres>>
    /\ UNCHANGED <<userDir, chanDir, endCursor, userCache, sfn, sarg, sexc>>
    /\ UNCHANGED notSlack

\* conversations.list fails: the SlackApiError is logged and raised again,
\* through the calling method.
SConversationsListFails(c) ==
    /\ spc[c] \in {"conversations_list", "conversations_list_again"}
    /\ spc' = [spc EXCEPT ![c] = "failed"]
    /\ sexc' = [sexc EXCEPT ![c] = "SlackApiError"]
    /\ channelCache' = CacheOnFailure(channelCache)
    /\ safter' = [safter EXCEPT ![c] = CacheOnFailure(channelCache)]
    /\ UNCHANGED <<userDir, chanDir, endCursor, userCache, sfn, sarg, slist, snext, sres>>
    /\ UNCHANGED notSlack

\* No call on the Slack client is suspended.
SQuiet == \A c \in SCalls : spc[c] \in {"init", "done", "failed"}

(***************************************************************************)
(* resolve_channel, find_user_by_name and get_project_by_name, one call:   *)
(* the Slack functions search the client's cache once _load_all_* has      *)
(* returned (at once on a populated cache, after the listing request on an *)
(* empty one); get_project_by_name searches the answer of list_projects.   *)
(***************************************************************************)
\* The directory the function searches, in iteration order.
rdir ==
    CASE rfn = "resolve_channel" -> channelCache
      [] rfn = "find_user_by_name" -> userCache
      [] OTHER -> rprojects

\* The function has returned.
rdone == rpc = "done"

\* A backend whose directory fits one page.
OnePage(pages) == { <<page>> : page \in pages }

\* A client with any bounded cache; behind an empty cache a backend with a
\* one-page directory.
RInit ==
    /\ rfn \in {"resolve_channel", "find_user_by_name", "get_project_by_name"}
    /\ rprojects \in IF rfn = "get_project_by_name" THEN ProjectLists ELSE {<<>>}
    /\ channelCache \in IF rfn = "resolve_channel" THEN ChannelCaches ELSE {<<>>}
    /\ userCache \in IF rfn = "find_user_by_name" THEN UserCaches ELSE {<<>>}
    /\ chanDir \in IF rfn = "resolve_channel" /\ channelCache = <<>>
                   THEN OnePage(ChanPages) ELSE {FixedChanDir}
    /\ userDir \in IF rfn = "find_user_by_name" /\ userCache = <<>>
                   THEN OnePage(UserPages) ELSE {FixedUserDir}
    /\ endCursor = ""
    /\ spc = [c \in SCalls |-> "init"]
    /\ sfn = [c \in SCalls |-> None]
    /\ sarg = [c \in SCalls |-> <<>>]
    /\ slist = [c \in SCalls |-> <<>>]
    /\ snext = [c \in SCalls |-> <<>>]
    /\ safter = [c \in SCalls |-> <<>>]
    /\ sexc = [c \in SCalls |-> None]
    /\ sres = [c \in SCalls |-> SNoResult]
    /\ rquery \in Queries
    /\ rpc = "init"
    /\ rres = CASE rfn = "resolve_channel" -> NoChannel
                [] rfn = "find_user_by_name" -> NoUser
                [] rfn = "get_project_by_name" -> NoProject

\* Name resolution is not in use.
RIdle ==
    /\ rfn = None
    /\ rprojects = <<>>
    /\ rquery = <<>>
    /\ rpc = "init"
    /\ rres = NoChannel

\* The Slack variables other than the two caches.
sOther == <<userDir, chanDir, endCursor, spc, sfn, sarg, slist, snext, safter, sexc, sres>>

\* What a call of this section leaves alone besides the two caches.
notCaches == <<sOther, zvars, cvars, tvars>>

\* resolve_channel is called and awaits _load_all_channels: on a populated
\* cache the routine returns at once and the function matches and returns;
\* on an empty cache it sends conversations.list and is suspended.
RResolveChannel ==
    /\ rfn = "resolve_channel"
    /\ rpc = "init"
    /\ IF CachePopulated(channelCache)
       THEN /\ rres' = ResolveChannel(channelCache, rquery)
            /\ rpc' = "done"
       ELSE /\ rpc' = "conversations_list"
            /\ UNCHANGED rres
    /\ UNCHANGED <<rfn, rprojects, rquery, userCache, channelCache>>
    /\ UNCHANGED notCaches

\* conversations.list answers with the page: it is stored and, no page
\* following, resolve_channel matches against the cache and returns.
RConversationsListPage ==
    /\ rpc = "conversations_list"
    /\ ~ScanContinues(NextCursor(chanDir, 1))
    /\ channelCache' = StoreChannels(channelCache, chanDir[1])
    /\ rres' = ResolveChannel(StoreChannels(channelCache, chanDir[1]), rquery)
    /\ rpc' = "done"
    /\ UNCHANGED <<rfn, rprojects, rquery, userCache>>
    /\ UNCHANGED notCaches

\* find_user_by_name is called and awaits _load_all_users.
RFindUserByName ==
    /\ rfn = "find_user_by_name"
    /\ rpc = "init"
    /\ IF CachePopulated(userCache)
       THEN /\ rres' = FindUserByName(userCache, rquery)
            /\ rpc' = "done"
       ELSE /\ rpc' = "users_list"
            /\ UNCHANGED rres
    /\ UNCHANGED <<rfn, rprojects, rquery, userCache, channelCache>>
    /\ UNCHANGED notCaches

\* users.list answers with the page: its users are stored and, no page
\* following, find_user_by_name matches against the cache and returns.
RUsersListPage ==
    /\ rpc = "users_list"
    /\ ~ScanContinues(NextCursor(userDir, 1))
    /\ userCache' = StoreUsers(userCache, userDir[1])
    /\ rres' = FindUserByName(StoreUsers(userCache, userDir[1]), rquery)
    /\ rpc' = "done"
    /\ UNCHANGED <<rfn, rprojects, rquery, channelCache>>
    /\ UNCHANGED notCaches

\* get_project_by_name is called: list_projects posts its GraphQL query and
\* the call is suspended.
RGetProjectByName ==
    /\ rfn = "get_project_by_name"
    /\ rpc = "init"
    /\ rpc' = "graphql"
    /\ UNCHANGED <<rfn, rprojects, rquery, rres, userCache, channelCache>>
    /\ UNCHANGED notCaches

\* The GraphQL query is answered with the projects: get_project_by_name
\* matches against them and returns.
RProjectsListed ==
    /\ rpc = "graphql"
    /\ rres' = GetProjectByName(rprojects, rquery)
    /\ rpc' = "done"
    /\ UNCHANGED <<rfn, rprojects, rquery, userCache, channelCache>>
    /\ UNCHANGED notCaches

\* The pending request fails (SlackApiError of a listing, an HTTP or
\* GraphQL error of the query): the error is raised out of the function,
\* the cache staying as it is.
RRequestFails ==
    /\ rpc \in {"conversations_list", "users_list", "graphql"}
    /\ rpc' = "failed"
    /\ UNCHANGED <<rfn, rprojects, rquery, rres, userCache, channelCache>>
    /\ UNCHANGED notCaches

(***************************************************************************)
(* Requests built from arguments: dicts of parameters and JSON bodies.     *)
(***************************************************************************)
\* A dict is the sequence of its <<key, value>> items in insertion order;
\* a value is tagged with its Python type.
Str(v) == [str |-> v]

Num(n) == [num |-> n]

DictKeys(d) == { d[i][1] : i \in 1..Len(d) }

DictValue(d, k) == d[CHOOSE i \in 1..Len(d) : d[i][1] = k][2]

\* if value: d[key] = value
PutIfTruthy_Always(d, key, value) == Append(d, <<key, Str(value)>>)

PutIfTruthy(d, key, value) == IF Truthy(value) THEN Append(d, <<key, Str(value)>>) ELSE d

\* The method has returned.
cdone == cpc = "done"

\* The method has returned or raised.
cended == cpc \in {"done", "failed"}

\* No request building is in progress.
CIdle ==
    /\ cfn = None
    /\ cargs = [none |-> TRUE]
    /\ cpc = "init"
    /\ cout = [none |-> TRUE]

(***************************************************************************)
(* GitHubClient.                                                           *)
(***************************************************************************)
RepoChars == {"a", "/"}

Repos == Strings(RepoChars, MaxNameLen)

\* self.owner: "" when no default owner is configured.
Owners == {<<>>, <<"o">>}

\* _full_repo
FullRepo_AlwaysPrefixed(owner, repo) == owner \o <<"/">> \o repo

FullRepo(owner, repo) ==
    IF \E i \in 1..Len(repo) : repo[i] = "/" THEN repo
    ELSE IF owner # <<>> THEN owner \o <<"/">> \o repo
    ELSE repo

\* f"/repos/{full}" followed by the rest of the path.
ReposPath(full, rest) == <<"/", "r", "e", "p", "o", "s", "/">> \o full \o rest

PerPages == {20}

Branches == {"", "dev"}

Times == {None, "", "2026-02-26T00:00:00+08:00"}

States == {"open", "closed", ""}

LabelFilters == {None, "", "bug,urgent"}

RunStatuses == {None, "", "completed"}

\* params of get_commits
CommitsParams(branch, since, until, per_page) ==
    PutIfTruthy(PutIfTruthy(PutIfTruthy(<< <<"per_page", Num(per_page)>> >>,
                                        "sha", branch),
                            "since", since),
                "until", until)

\* params of get_pull_requests
PullRequestsParams(state, per_page) ==
    << <<"state", Str(state)>>, <<"per_page", Num(per_page)>>, <<"sort", Str("updated")>> >>

\* params of get_issues
IssuesParams(state, labels, per_page) ==
    PutIfTruthy(<< <<"state", Str(state)>>, <<"per_page", Num(per_page)>> >>, "labels", labels)

\* params of get_workflow_runs
WorkflowRunsParams(status, per_page) ==
    PutIfTruthy(<< <<"per_page", Num(per_page)>> >>, "status", status)

\* An entry of the /issues response: its number and its pull_request key,
\* which is absent, null or an object.
Absent == "<absent>"

IssueEntries(n) == { [number |-> n, pull_request |-> v] : v \in {Absent, None, "{url}"} }

IssueLists == UNION { { f \in [1..k -> UNION { IssueEntries(n) : n \in 1..k }] :
                            \A i \in 1..k : f[i].number = i } : k \in 0..MaxEntries }

\* issues = [i for i in result if "pull_request" not in i]
IsIssue_NoTruthyKey(entry) == ~Truthy(IF entry.pull_request = Absent THEN None ELSE entry.pull_request)

IsIssue(entry) == entry.pull_request = Absent

FilterIssues(result) == SelectSeq(result, IsIssue)

\* runs = result.get("workflow_runs", [])
WorkflowRuns(result) == IF "workflow_runs" \in result.keys THEN result.workflow_runs ELSE <<>>

\* The /actions/runs response: a dict with or without the workflow_runs key.
RunResults ==
    { [keys |-> {"total_count"}, workflow_runs |-> <<>>] }
        \cup { [keys |-> {"total_count", "workflow_runs"}, workflow_runs |-> runs] :
                   runs \in {<<>>, <<"run1">>, <<"run1", "run2">>} }

\* A JSON value that is a mapping (its items in order) or null.
DictOf(items) == [dict |-> items]

Null == [null |-> TRUE]

\* payload of _graphql: if variables: payload["variables"] = variables
GraphqlPayload(query, variables) ==
    << <<"query", Str(query)>> >>
        \o (IF variables # Null /\ variables.dict # <<>>
            THEN << <<"variables", variables>> >> ELSE <<>>)

\* An entry of the errors array: a mapping with or without a message.
GraphqlErrors ==
    { [keys |-> {}, message |-> <<>>] }
        \cup { [keys |-> {"message"}, message |-> m] : m \in { <<>>, <<"N", "o">>, <<"B", "a", "d">> } }

\* The errors array of a response: GraphQL sends the key only with at
\* least one error.
GraphqlErrorLists ==
    { <<e>> : e \in GraphqlErrors } \cup { <<e, f>> : e \in GraphqlErrors, f \in GraphqlErrors }

GraphqlData == { Null, DictOf(<<>>), DictOf(<< <<"user", Str("u")>> >>) }

\* The body of a GraphQL response: a mapping with or without the keys
\* data and errors (a field whose key is absent is not read).
GraphqlBodies ==
    { [keys |-> {}, data |-> Null, errors |-> <<>>] }
        \cup { [keys |-> {"data"}, data |-> d, errors |-> <<>>] : d \in GraphqlData }
        \cup { [keys |-> {"errors"}, data |-> Null, errors |-> l] : l \in GraphqlErrorLists }
        \cup { [keys |-> {"data", "errors"}, data |-> d, errors |-> l] :
                   d \in GraphqlData, l \in GraphqlErrorLists }

GraphqlResponses ==
    { [kind |-> "response", status |-> 200, body |-> b, error |-> None] : b \in GraphqlBodies }
        \cup { [kind |-> "response", status |-> st,
                body |-> [keys |-> {}, data |-> Null, errors |-> <<>>], error |-> None] :
                   st \in {StatusUnauthorized} \cup OtherErrorStatuses }
        \cup { [kind |-> "transport", status |-> 0,
                body |-> [keys |-> {}, data |-> Null, errors |-> <<>>], error |-> e] :
                   e \in {"TimeoutException", "ConnectError"} }

\* data['errors'][0].get('message', '')
FirstErrorMessage(errors) == IF "message" \in errors[1].keys THEN errors[1].message ELSE <<>>

GraphqlErrorPrefix ==
    <<"G", "r", "a", "p", "h", "Q", "L", " ", "E", "r", "r", "o", "r", ":", " ">>

\* What _graphql hands its caller for a 2xx response with the body given.
GraphqlResult_DataFirst(body) ==
    IF "data" \in body.keys THEN [kind |-> "return", value |-> body.data]
    ELSE IF "errors" \in body.keys
    THEN [kind |-> "raise", type |-> "Exception",
          message |-> GraphqlErrorPrefix \o FirstErrorMessage(body.errors)]
    ELSE [kind |-> "return", value |-> DictOf(<<>>)]

GraphqlResult(body) ==
    IF "errors" \in body.keys
    THEN [kind |-> "raise", type |-> "Exception",
          message |-> GraphqlErrorPrefix \o FirstErrorMessage(body.errors)]
    ELSE IF "data" \in body.keys THEN [kind |-> "return", value |-> body.data]
    ELSE [kind |-> "return", value |-> DictOf(<<>>)]

\* The JSON list a /commits or /pulls request is answered with.
EntryLists == { <<>>, <<"entry1">>, <<"entry1", "entry2">> }

GitHubMethods ==
    {"_full_repo", "get_commits", "get_pull_requests", "get_issues", "get_workflow_runs",
     "_graphql"}

GitHubArgs(fn) ==
    CASE fn = "_full_repo" ->
            { [owner |-> o, repo |-> r] : o \in Owners, r \in Repos }
      [] fn = "get_commits" ->
            { [owner |-> o, repo |-> r, branch |-> b, since |-> t.s, until |-> t.u, per_page |-> n,
               result |-> res] :
                  o \in Owners, r \in Repos, b \in Branches,
                  t \in { [s |-> x, u |-> y] : x \in Times, y \in Times }, n \in PerPages,
                  res \in EntryLists }
      [] fn = "get_pull_requests" ->
            { [owner |-> o, repo |-> r, state |-> st, per_page |-> n, result |-> res] :
                  o \in Owners, r \in Repos, st \in States, n \in PerPages,
                  res \in EntryLists }
      [] fn = "get_issues" ->
            { [owner |-> <<"o">>, repo |-> <<"a">>, state |-> st, labels |-> l, per_page |-> n,
               result |-> res] :
                  st \in States, l \in LabelFilters, n \in PerPages, res \in IssueLists }
      [] fn = "get_workflow_runs" ->
            { [owner |-> <<"o">>, repo |-> <<"a">>, status |-> st, per_page |-> n,
               result |-> res] :
                  st \in RunStatuses, n \in PerPages, res \in RunResults }
      [] fn = "_graphql" ->
            { [query |-> "query {viewer}", variables |-> v, response |-> r] :
                  v \in { Null, DictOf(<<>>), DictOf(<< <<"first", Num(20)>> >>) },
                  r \in GraphqlResponses }

GInit ==
    /\ cfn \in GitHubMethods
    /\ cargs \in GitHubArgs(cfn)
    /\ cpc = "init"
    /\ cout = [none |-> TRUE]

\* What a failed request raises out of _request and the method awaiting
\* it, neither of which handles an exception: the error of
\* raise_for_status, or the transport's (a timeout, no connection).
RequestErrors == {"HTTPStatusError", "TimeoutException", "ConnectError"}

\* The pending request of a method fails: the error is raised out of the
\* method.
CRequestFails ==
    /\ cpc = "request"
    /\ cfn \in {"get_commits", "get_pull_requests", "get_issues", "get_workflow_runs"}
    /\ \E e \in RequestErrors : cout' = [request |-> cout, raised |-> e]
    /\ cpc' = "failed"
    /\ UNCHANGED <<cfn, cargs>>
    /\ UNCHANGED notBuild

\* A method sends GET path with params and is suspended at its await.
CSent(path, params) ==
    /\ cpc = "init"
    /\ cout' = [path |-> path, params |-> params]
    /\ cpc' = "request"
    /\ UNCHANGED <<cfn, cargs>>
    /\ UNCHANGED notBuild

GFullRepo ==
    /\ cfn = "_full_repo" /\ cpc = "init"
    /\ cout' = [value |-> FullRepo(cargs.owner, cargs.repo)]
    /\ cpc' = "done"
    /\ UNCHANGED <<cfn, cargs>>
    /\ UNCHANGED notBuild

\* get_commits is called: the request is sent.
GGetCommits ==
    /\ cfn = "get_commits"
    /\ CSent(ReposPath(FullRepo(cargs.owner, cargs.repo), <<"/", "c", "o", "m", "m", "i", "t", "s">>),
             CommitsParams(cargs.branch, cargs.since, cargs.until, cargs.per_page))

\* get_pull_requests is called: the request is sent.
GGetPullRequests ==
    /\ cfn = "get_pull_requests"
    /\ CSent(ReposPath(FullRepo(cargs.owner, cargs.repo), <<"/", "p", "u", "l", "l", "s">>),
             PullRequestsParams(cargs.state, cargs.per_page))

\* get_issues is called: the request is sent.
GGetIssues ==
    /\ cfn = "get_issues"
    /\ CSent(ReposPath(FullRepo(cargs.owner, cargs.repo), <<"/", "i", "s", "s", "u", "e", "s">>),
             IssuesParams(cargs.state, cargs.labels, cargs.per_page))

\* get_workflow_runs is called: the request is sent.
GGetWorkflowRuns ==
    /\ cfn = "get_workflow_runs"
    /\ CSent(ReposPath(FullRepo(cargs.owner, cargs.repo), <<"/", "a", "c", "t", "i", "o", "n", "s", "/", "r", "u", "n", "s">>),
             WorkflowRunsParams(cargs.status, cargs.per_page))

\* What a method returns for the JSON its request was answered with.
RestValue(fn, result) ==
    CASE fn = "get_issues" -> FilterIssues(result)
      [] fn = "get_workflow_runs" -> WorkflowRuns(result)
      [] OTHER -> result

\* _request returns the JSON of the answer: the method returns.
GRequestAnswered ==
    /\ cfn \in {"get_commits", "get_pull_requests", "get_issues", "get_workflow_runs"}
    /\ cpc = "request"
    /\ cout' = [path |-> cout.path, params |-> cout.params,
                value |-> RestValue(cfn, cargs.result)]
    /\ cpc' = "done"
    /\ UNCHANGED <<cfn, cargs>>
    /\ UNCHANGED notBuild

\* _graphql is called: the payload is posted.
GGraphql ==
    /\ cfn = "_graphql" /\ cpc = "init"
    /\ cout' = [payload |-> GraphqlPayload(cargs.query, cargs.variables)]
    /\ cpc' = "request"
    /\ UNCHANGED <<cfn, cargs>>
    /\ UNCHANGED notBuild

\* What _graphql hands its caller for the response: the httpx error of a
\* failed post (its text is httpx's), else the result for the body.
GraphqlOutcome(response) ==
    IF HttpxError(response) # NoExc
    THEN [kind |-> "raise", type |-> HttpxError(response).type]
    ELSE GraphqlResult(response.body)

\* The post is answered (or fails): _graphql raises or returns.
GGraphqlAnswered ==
    /\ cfn = "_graphql" /\ cpc = "request"
    /\ cout' = [payload |-> cout.payload, result |-> GraphqlOutcome(cargs.response)]
    /\ cpc' = IF GraphqlOutcome(cargs.response).kind = "raise" THEN "failed" ELSE "done"
    /\ UNCHANGED <<cfn, cargs>>
    /\ UNCHANGED notBuild

(***************************************************************************)
(* ZentaoClient.create_bug and create_task: the JSON body handed to _post. *)
(***************************************************************************)
ObjectIds == {1}

Titles == {"", "Login fails"}

Texts == {"", "<p>steps</p>"}

Levels == {1, 3}

BugTypes == {"codeerror", "security"}

Accounts == {"", "wangzm"}

Estimates == {0, 2}

\* body of create_bug
CreateBugBody(product_id, title, steps, severity, pri, bug_type, assignedTo) ==
    PutIfTruthy(<< <<"product", Num(product_id)>>,
                   <<"title", Str(title)>>,
                   <<"steps", Str(steps)>>,
                   <<"severity", Num(severity)>>,
                   <<"pri", Num(pri)>>,
                   <<"type", Str(bug_type)>> >>,
                "assignedTo", assignedTo)

\* body of create_task
CreateTaskBody(name, assignedTo, estimate, pri, desc) ==
    PutIfTruthy(PutIfTruthy(<< <<"name", Str(name)>>,
                               <<"pri", Num(pri)>>,
                               <<"estimate", Num(estimate)>> >>,
                            "assignedTo", assignedTo),
                "desc", desc)

\* The JSON a create request is answered with.
CreatedAnswers == { DictOf(<< <<"id", Num(7)>> >>), DictOf(<<>>) }

ZentaoBodyMethods == {"create_bug", "create_task"}

ZentaoBodyArgs(fn) ==
    CASE fn = "create_bug" ->
            { [product_id |-> id, title |-> t, steps |-> st, severity |-> lv.s, pri |-> lv.p,
               bug_type |-> bt, assignedTo |-> a] :
                  id \in ObjectIds, t \in Titles, st \in Texts,
                  lv \in { [s |-> x, p |-> y] : x \in Levels, y \in Levels },
                  bt \in BugTypes, a \in Accounts }
      [] fn = "create_task" ->
            { [execution_id |-> id, name |-> t, assignedTo |-> a, estimate |-> e, pri |-> p,
               desc |-> d] :
                  id \in ObjectIds, t \in Titles, a \in Accounts, e \in Estimates,
                  p \in Levels, d \in Texts }

BInit ==
    /\ cfn \in ZentaoBodyMethods
    /\ cargs \in ZentaoBodyArgs(cfn)
    /\ cpc = "init"
    /\ cout = [none |-> TRUE]

(***************************************************************************)
(* SlackClient.build_task_blocks: the Block Kit list of a task card.       *)
(***************************************************************************)
\* The literals of the card, one element per character.
HeaderPrefix == <<"U+1F4CC", " ">>

StatusLabel == <<"*", "U+72B6", "U+6001", ":", "*", "\n">>

PriorityLabel == <<"*", "U+4F18", "U+5148", "U+7EA7", ":", "*", "\n">>

AssigneeLabel == <<"*", "U+8D1F", "U+8D23", "U+4EBA", ":", "*", "\n">>

DescriptionLabel == <<"*", "U+63CF", "U+8FF0", ":", "*", "\n">>

FooterText ==
    <<"U+521B", "U+5EFA", "U+81EA", " ", "D", "e", "v", "O", "p", "s", " ", "A", "g", "e", "n",
      "t", " ", "|", " ", "A", "n", "t", "i", "g", "r", "a", "v", "i", "t", "y", " ", "M", "C", "P">>

\* status and priority as the tools and the defaults give them.
DefaultStatus == <<"U+1F4CB", " ", "U+5F85", "U+5904", "U+7406">>

DefaultPriority == <<"U+666E", "U+901A">>

Mrkdwn(text) == [type |-> "mrkdwn", text |-> text]

HeaderBlock(title) ==
    [type |-> "header",
     text |-> [type |-> "plain_text", text |-> HeaderPrefix \o title, emoji |-> TRUE]]

DividerBlock == [type |-> "divider"]

\* fields, with `if assignee: fields.append(...)`
TaskFields_AlwaysAssignee(status, priority, assignee) ==
    << Mrkdwn(StatusLabel \o status), Mrkdwn(PriorityLabel \o priority),
       Mrkdwn(AssigneeLabel \o assignee) >>

TaskFields(status, priority, assignee) ==
    << Mrkdwn(StatusLabel \o status), Mrkdwn(PriorityLabel \o priority) >>
        \o (IF assignee # <<>> THEN << Mrkdwn(AssigneeLabel \o assignee) >> ELSE <<>>)

FieldsSection(fields) == [type |-> "section", fields |-> fields]

DescriptionSection(description) ==
    [type |-> "section", text |-> Mrkdwn(DescriptionLabel \o description)]

ContextBlock == [type |-> "context", elements |-> << Mrkdwn(FooterText) >>]

BuildTaskBlocks(title, description, assignee, status, priority) ==
    << HeaderBlock(title), DividerBlock,
       FieldsSection(TaskFields(status, priority, assignee)) >>
        \o (IF description # <<>> THEN << DescriptionSection(description) >> ELSE <<>>)
        \o << ContextBlock >>

\* Arguments of build_task_blocks: a title "T" or "T2", an assignee as a
\* name or as a mention, each also empty.
CardTexts == { <<>>, <<"T">>, <<"T", "2">> }

CardAssignees == { <<>>, <<"a">>, <<"<", "@", "U", "1", ">">> }

CardStatuses == { DefaultStatus, <<"d", "o", "n", "e">> }

CardPriorities == { DefaultPriority, <<"U+7D27", "U+6025">> }

KInit ==
    /\ cfn = "build_task_blocks"
    /\ cargs \in { [title |-> t, description |-> d, assignee |-> a, status |-> s, priority |-> p] :
                       t \in CardTexts, d \in CardTexts, a \in CardAssignees,
                       s \in CardStatuses, p \in CardPriorities }
    /\ cpc = "init"
    /\ cout = [none |-> TRUE]

KBuildTaskBlocks ==
    /\ cfn = "build_task_blocks" /\ cpc = "init"
    /\ cout' = [value |-> BuildTaskBlocks(cargs.title, cargs.description, cargs.assignee,
                                           cargs.status, cargs.priority)]
    /\ cpc' = "done"
    /\ UNCHANGED <<cfn, cargs>>
    /\ UNCHANGED notBuild

(***************************************************************************)
(* ZentaoClient.list_projects, list_bugs and list_tasks: the records       *)
(* returned for the entries of the backend's answer.                       *)
(***************************************************************************)
\* d.get(key, default)
DictGet(d, key, default) == IF key \in DictKeys(d) THEN DictValue(d, key) ELSE default

\* isinstance(v, dict)
IsDict(v) == "dict" \in DOMAIN v

\* str(v) of a JSON scalar.
PyStr(v) ==
    IF "str" \in DOMAIN v THEN v.str
    ELSE IF "num" \in DOMAIN v THEN ToString(v.num)
    ELSE "None"

\* p.get(key, {}).get("realname", "") if isinstance(p.get(key), dict)
\* else str(p.get(key, ""))
PersonName_StrOrEmpty(rec, key) ==
    IF IsDict(DictGet(rec, key, Null))
    THEN DictGet(DictGet(rec, key, DictOf(<<>>)).dict, "realname", Str(""))
    ELSE IF DictGet(rec, key, Null) = Null THEN Str("")
    ELSE Str(PyStr(DictGet(rec, key, Str(""))))

PersonName(rec, key) ==
    IF IsDict(DictGet(rec, key, Null))
    THEN DictGet(DictGet(rec, key, DictOf(<<>>)).dict, "realname", Str(""))
    ELSE Str(PyStr(DictGet(rec, key, Str(""))))

\* The record list_projects returns for entry p.
ProjectRecord(p) ==
    << <<"id", DictValue(p, "id")>>,
       <<"name", DictValue(p, "name")>>,
       <<"status", DictValue(p, "status")>>,
       <<"begin", DictGet(p, "begin", Str(""))>>,
       <<"end", DictGet(p, "end", Str(""))>>,
       <<"PM", PersonName(p, "PM")>> >>

\* The record list_bugs returns for entry b.
BugRecord(b) ==
    << <<"id", DictValue(b, "id")>>,
       <<"title", DictValue(b, "title")>>,
       <<"status", DictValue(b, "status")>>,
       <<"severity", DictGet(b, "severity", Str(""))>>,
       <<"pri", DictGet(b, "pri", Str(""))>>,
       <<"assignedTo", PersonName(b, "assignedTo")>>,
       <<"openedBy", PersonName(b, "openedBy")>>,
       <<"openedDate", DictGet(b, "openedDate", Str(""))>> >>

\* The record list_tasks returns for entry t.
TaskRecord(t) ==
    << <<"id", DictValue(t, "id")>>,
       <<"name", DictValue(t, "name")>>,
       <<"status", DictValue(t, "status")>>,
       <<"pri", DictGet(t, "pri", Str(""))>>,
       <<"assignedTo", PersonName(t, "assignedTo")>>,
       <<"deadline", DictGet(t, "deadline", Str(""))>>,
       <<"estimate", DictGet(t, "estimate", Num(0))>> >>

\* params of list_bugs and of list_tasks
ListBugsParams(status, assignedTo, limit) ==
    PutIfTruthy(PutIfTruthy(<< <<"limit", Num(limit)>> >>, "status", status),
                "assignedTo", assignedTo)

ListTasksParams(status, limit) == PutIfTruthy(<< <<"limit", Num(limit)>> >>, "status", status)

\* data.get(key, []) of the answer.
ListOf(data, key) == IF key \in data.keys THEN data.list ELSE <<>>

\* What the backend sends for a person: a record with or without a
\* realname, an account name, a number, null.
PersonValues ==
    { DictOf(<< <<"id", Num(3)>>, <<"account", Str("wangzm")>>, <<"realname", Str("Wang")>> >>),
      DictOf(<< <<"id", Num(3)>>, <<"account", Str("wangzm")>> >>),
      DictOf(<<>>),
      Str("wangzm"), Str(""), Num(7), Null }

\* The items of a person field: none when the key is absent.
PersonItems(key) == { <<>> } \cup { << <<key, v>> >> : v \in PersonValues }

ProjectEntries ==
    { << <<"id", Num(1)>>, <<"name", Str("P")>>, <<"status", Str("doing")>> >> \o o \o pm :
          o \in { <<>>, << <<"begin", Str("2026-01-01")>>, <<"end", Str("2026-06-30")>> >> },
          pm \in PersonItems("PM") }

BugEntries ==
    { << <<"id", Num(1)>>, <<"title", Str("B")>>, <<"status", Str("active")>> >> \o o \o a \o b :
          o \in { <<>>, << <<"severity", Num(3)>>, <<"pri", Num(1)>>,
                           <<"openedDate", Str("2026-02-26")>> >> },
          a \in PersonItems("assignedTo"), b \in PersonItems("openedBy") }

TaskEntries ==
    { << <<"id", Num(1)>>, <<"name", Str("T")>>, <<"status", Str("wait")>> >> \o o \o a :
          o \in { <<>>, << <<"pri", Num(1)>>, <<"deadline", Str("2026-03-01")>>,
                           <<"estimate", Num(2)>> >> },
          a \in PersonItems("assignedTo") }

\* The answer of a list request: a mapping with or without the list; the
\* second entry of a list of two carries one person field and no other
\* optional field.
ListAnswers(key, entries) ==
    { [keys |-> {}, list |-> <<>>], [keys |-> {key}, list |-> <<>>] }
        \cup { [keys |-> {key}, list |-> <<e>>] : e \in entries }
        \cup { [keys |-> {key}, list |-> <<e, f>>] :
                   e \in entries, f \in { g \in entries : Len(g) = 4 } }

ZentaoListMethods == {"list_projects", "list_bugs", "list_tasks"}

ZentaoListArgs(fn) ==
    CASE fn = "list_projects" ->
            { [limit |-> 50] }
      [] fn = "list_bugs" ->
            { [product_id |-> 1, status |-> s, assignedTo |-> a, limit |-> 20] :
                  s \in {"", "active"}, a \in Accounts }
      [] fn = "list_tasks" ->
            { [execution_id |-> 1, status |-> s, limit |-> 20] : s \in {"", "wait"} }

LInit ==
    /\ cfn \in ZentaoListMethods
    /\ cargs \in ZentaoListArgs(cfn)
    /\ cpc = "init"
    /\ cout = [none |-> TRUE]

(***************************************************************************)
(* The methods of ZentaoClient on _get and _post: a method is suspended    *)
(* wherever the helper it awaits is (the login, the request, the login     *)
(* and the request again after a 401), returns what it makes of the        *)
(* helper's payload, and handles no exception of the helper.               *)
(***************************************************************************)
\* The JSON the backend answers a method's request with.
MethodAnswers(fn) ==
    CASE fn \in ZentaoBodyMethods -> CreatedAnswers
      [] fn = "list_projects" -> ListAnswers("projects", ProjectEntries)
      [] fn = "list_bugs" -> ListAnswers("bugs", BugEntries)
      [] fn = "list_tasks" -> ListAnswers("tasks", TaskEntries)

\* What httpx hands back for the request: that JSON with status 200, an
\* error status, a transport failure.
MethodResponses(fn) ==
    { [kind |-> "response", status |-> st, body |-> d, error |-> None] :
          st \in SuccessStatuses, d \in MethodAnswers(fn) }
        \cup { r \in DataResponses : HttpxError(r) # NoExc }

\* What a method returns for the payload data of its helper.
MethodValue(fn, data) ==
    CASE fn \in ZentaoBodyMethods -> data
      [] fn = "list_projects" ->
            [i \in 1..Len(ListOf(data, "projects")) |-> ProjectRecord(ListOf(data, "projects")[i])]
      [] fn = "list_bugs" ->
            [i \in 1..Len(ListOf(data, "bugs")) |-> BugRecord(ListOf(data, "bugs")[i])]
      [] fn = "list_tasks" ->
            [i \in 1..Len(ListOf(data, "tasks")) |-> TaskRecord(ListOf(data, "tasks")[i])]

\* The JSON the helper was last answered with (the helper call of a
\* method is call 1 of the client).
Answered == zresp[1][Len(zresp[1])].body

WithValue(request, value) ==
    [k \in DOMAIN request \cup {"value"} |-> IF k = "value" THEN value ELSE request[k]]

\* A method calls helper c with the request it has built and is suspended
\* where the helper is.
CAwaits(c, request) ==
    /\ cpc = "init"
    /\ cout' = request
    /\ cpc' = "request"
    /\ ZCall(1, c)
    /\ UNCHANGED <<cfn, cargs, rvars, svars, tvars>>

\* The helper has run on: the method stays suspended with it, returns, or
\* lets the helper's exception through.
CResumed ==
    LET res == zresult'[1] IN
    /\ cpc' = (CASE res.kind = "pending" -> "request"
                 [] res.kind = "return" -> "done"
                 [] OTHER -> "failed")
    /\ cout' = (CASE res.kind = "pending" -> cout
                  [] res.kind = "return" -> WithValue(cout, MethodValue(cfn, res.value))
                  [] OTHER -> [request |-> cout, raised |-> res.exc.type])
    /\ UNCHANGED <<cfn, cargs, rvars, svars, tvars>>

\* The login of the helper is answered.
CLoginAnswered ==
    /\ cpc = "request"
    /\ \E r \in LoginResponses : ZLoginResponse(1, r) /\ CResumed

\* The request of the helper is answered.
CRequestAnswered ==
    /\ cpc = "request"
    /\ \E r \in MethodResponses(cfn) : ZFirstResponse(1, r) /\ CResumed

\* The login after a 401 is answered.
CReloginAnswered ==
    /\ cpc = "request"
    /\ \E r \in LoginResponses : ZReloginResponse(1, r) /\ CResumed

\* The request sent again is answered.
CRetryAnswered ==
    /\ cpc = "request"
    /\ \E r \in MethodResponses(cfn) : ZRetryResponse(1, r) /\ CResumed

\* create_bug is called: _post is awaited. A path is the sequence of the
\* parts of its f-string.
BCreateBug ==
    /\ cfn = "create_bug"
    /\ LET path == <<Str("/products/"), Num(cargs.product_id), Str("/bugs")>>
           body == CreateBugBody(cargs.product_id, cargs.title, cargs.steps, cargs.severity,
                                 cargs.pri, cargs.bug_type, cargs.assignedTo)
       IN CAwaits([helper |-> "_post", method |-> "POST", path |-> path, arg |-> body],
                  [path |-> path, body |-> body])

\* create_task is called: _post is awaited.
BCreateTask ==
    /\ cfn = "create_task"
    /\ LET path == <<Str("/executions/"), Num(cargs.execution_id), Str("/tasks")>>
           body == CreateTaskBody(cargs.name, cargs.assignedTo, cargs.estimate, cargs.pri,
                                  cargs.desc)
       IN CAwaits([helper |-> "_post", method |-> "POST", path |-> path, arg |-> body],
                  [path |-> path, body |-> body])

\* list_projects is called: _get is awaited.
LListProjects ==
    /\ cfn = "list_projects"
    /\ LET path == <<Str("/projects")>>
           params == << <<"limit", Num(cargs.limit)>> >>
       IN CAwaits([helper |-> "_get", method |-> "GET", path |-> path, arg |-> params],
                  [path |-> path, params |-> params])

\* list_bugs is called: _get is awaited.
LListBugs ==
    /\ cfn = "list_bugs"
    /\ LET path == <<Str("/products/"), Num(cargs.product_id), Str("/bugs")>>
           params == ListBugsParams(cargs.status, cargs.assignedTo, cargs.limit)
       IN CAwaits([helper |-> "_get", method |-> "GET", path |-> path, arg |-> params],
                  [path |-> path, params |-> params])

\* list_tasks is called: _get is awaited.
LListTasks ==
    /\ cfn = "list_tasks"
    /\ LET path == <<Str("/executions/"), Num(cargs.execution_id), Str("/tasks")>>
           params == ListTasksParams(cargs.status, cargs.limit)
       IN CAwaits([helper |-> "_get", method |-> "GET", path |-> path, arg |-> params],
                  [path |-> path, params |-> params])

(***************************************************************************)
(* server.load_config: environment variables over config.yaml.             *)
(***************************************************************************)
\* os.environ.get(VAR, file_section.get(key, default)): env is the
\* variable's value and file the key's value in config.yaml, each Absent
\* when not set (no config.yaml, no section or no key for file).
Resolve_FileFirst(env, file, default) ==
    IF file # Absent THEN file ELSE IF env # Absent THEN env ELSE default

Resolve(env, file, default) ==
    IF env # Absent THEN env ELSE IF file # Absent THEN file ELSE default

\* The settings, with the default of each.
SettingDefault ==
    [github_token |-> "", github_owner |-> "", slack_bot_token |-> "",
     slack_default_channel |-> "#general",
     zentao_url |-> "", zentao_account |-> "", zentao_password |-> ""]

Settings == DOMAIN SettingDefault

\* config of load_config.
ResolvedConfig(env, file) == [k \in Settings |-> Resolve(env[k], file[k], SettingDefault[k])]

\* The checks of the required settings, in the order of the code.
LoadConfigResult(env, file) ==
    LET config == ResolvedConfig(env, file) IN
    IF ~Truthy(config.github_token)
    THEN [kind |-> "raise", type |-> "ValueError", missing |-> "GitHub Token"]
    ELSE IF ~Truthy(config.slack_bot_token)
    THEN [kind |-> "raise", type |-> "ValueError", missing |-> "Slack Bot Token"]
    ELSE [kind |-> "return", config |-> config]

\* Values of one source: the tokens and the channel are unset, empty or
\* set; the owner is unset or set; the three ZenTao settings are set
\* together or not at all.
SourceValues(tag) ==
    { [github_token |-> g, github_owner |-> o, slack_bot_token |-> s,
       slack_default_channel |-> c,
       zentao_url |-> z, zentao_account |-> z, zentao_password |-> z] :
          g \in {Absent, "", tag}, o \in {Absent, tag}, s \in {Absent, "", tag},
          c \in {Absent, "", tag}, z \in {Absent, tag} }

FInit ==
    /\ cfn = "load_config"
    /\ cargs \in { [env |-> e, file |-> f] : e \in SourceValues("env"), f \in SourceValues("file") }
    /\ cpc = "init"
    /\ cout = [none |-> TRUE]

FLoadConfig ==
    /\ cfn = "load_config" /\ cpc = "init"
    /\ cout' = LoadConfigResult(cargs.env, cargs.file)
    /\ cpc' = IF LoadConfigResult(cargs.env, cargs.file).kind = "raise" THEN "failed" ELSE "done"
    /\ UNCHANGED <<cfn, cargs>>
    /\ UNCHANGED notBuild

(***************************************************************************)
(* The tools of src/tools/slack_tools.py (slack_send_message,              *)
(* slack_create_task, slack_update_task, slack_list_channels) on a         *)
(* SlackClient, cut at the awaits of the requests: the listing a client    *)
(* method sends on an empty cache, the post, the update, the channel list. *)
(***************************************************************************)
\* SlackClient.default_channel
DefaultChannel == "#general"

\* ch = channel or self.default_channel   (send_message, send_blocks)
PostChannel(channel) == IF Truthy(channel) THEN channel ELSE DefaultChannel

\* if error:
ErrorReported_Never(error) == FALSE

ErrorReported(error) == ~error.none /\ error.chars # <<>>

\* The characters of a user id.
IdChars(id) ==
    CASE id = "U1" -> <<"U", "1">>
      [] id = "U2" -> <<"U", "2">>
      [] id = "U3" -> <<"U", "3">>
      [] id = "U4" -> <<"U", "4">>

\* display_assignee: f"<@{user['id']}>" if user, else the name as given.
DisplayAssignee(assignee, user) ==
    IF user # NoUser THEN <<"<", "@">> \o IdChars(user.id) \o <<">">> ELSE assignee

NewTaskPrefix == <<"U+1F4CC", " ", "U+65B0", "U+4EFB", "U+52A1", ":", " ">>

UpdatedTaskPrefix == <<"U+1F4CC", " ", "U+4EFB", "U+52A1", "U+66F4", "U+65B0", ":", " ">>

\* s.startswith(prefix)
StartsWith(str, prefix) ==
    Len(str) >= Len(prefix) /\ SubSeq(str, 1, Len(prefix)) = prefix

\* The tools that take a channel name and validate it.
ValidatingTools == {"slack_send_message", "slack_create_task"}

\* `if assignee:` (slack_create_task),
\* `if assignee and not assignee.startswith("<@"):` (slack_update_task)
LooksUpAssignee(fn, args) ==
    CASE fn = "slack_create_task" -> args.assignee # <<>>
      [] fn = "slack_update_task" ->
            args.assignee # <<>> /\ ~StartsWith(args.assignee, <<"<", "@">>)
      [] OTHER -> FALSE

\* The request a tool ends with: chat.postMessage of send_message (for
\* slack_send_message) and of send_blocks (for slack_create_task),
\* chat.update of update_message (for slack_update_task; the card is
\* never an empty list, so blocks is always a keyword).
PostCall(fn, args, target, display) ==
    CASE fn = "slack_send_message" ->
            [call |-> "chat_postMessage", channel |-> PostChannel(target), text |-> args.text]
      [] fn = "slack_create_task" ->
            [call |-> "chat_postMessage", channel |-> PostChannel(target),
             text |-> NewTaskPrefix \o args.title,
             blocks |-> BuildTaskBlocks(args.title, args.description, display,
                                        DefaultStatus, args.priority)]
      [] fn = "slack_update_task" ->
            [call |-> "chat_update", channel |-> args.channel, ts |-> args.ts,
             text |-> UpdatedTaskPrefix \o args.title \o <<" ", "-", " ">> \o args.status,
             blocks |-> BuildTaskBlocks(args.title, args.description, display,
                                        args.status, args.priority)]

\* The channel id in the response of chat.postMessage.
RespondedChannel(channel) == IF channel = DefaultChannel THEN "C0" ELSE channel

\* The response to the request call: chat.update answers with the channel
\* and the ts it was sent.
PostResponse(call) ==
    IF call.call = "chat_update"
    THEN [ok |-> TRUE, channel |-> call.channel, ts |-> call.ts]
    ELSE [ok |-> TRUE, channel |-> RespondedChannel(call.channel), ts |-> "1772072400.000100"]

\* The dict a tool serializes: the result of send_message / send_blocks /
\* update_message, with the message of slack_create_task and of
\* slack_update_task (the values it interpolates).
PostResult(fn, args, response) ==
    CASE fn = "slack_send_message" ->
            [ok |-> response.ok, channel |-> response.channel, ts |-> response.ts]
      [] fn = "slack_create_task" ->
            [ok |-> response.ok, channel |-> response.channel, ts |-> response.ts,
             message |-> [title |-> args.title, channel |-> response.channel,
                          ts |-> response.ts]]
      [] fn = "slack_update_task" ->
            [ok |-> response.ok, channel |-> response.channel, ts |-> response.ts,
             message |-> [title |-> args.title, status |-> args.status]]

TPending == [kind |-> "pending"]

\* return json.dumps(value, ...)
ToolReturned(value) == [kind |-> "return", json |-> value]

ToolRaised(type) == [kind |-> "raise", type |-> type]

\* No tool has been called.
TIdle ==
    /\ tfn = None
    /\ targs = [none |-> TRUE]
    /\ tpc = "init"
    /\ tlog = <<>>
    /\ tgot = <<>>
    /\ ttarget = None
    /\ tres = TPending

\* Arguments of the tools.
ToolChannels == { <<>>, <<"#", "a">>, <<"B", "B">>, <<"#">> }

SendMessageArgs == { [text |-> <<"h", "i">>, channel |-> ch] : ch \in ToolChannels }

CreateTaskArgs ==
    { [title |-> <<"T">>, description |-> d, assignee |-> a, priority |-> p, channel |-> ch] :
          d \in { <<>>, <<"T", "2">> }, a \in { <<>>, <<"a">>, <<"B", "B">> },
          p \in CardPriorities, ch \in ToolChannels }

UpdateTaskArgs ==
    { [channel |-> <<"C", "1">>, ts |-> "1772072400.000100", title |-> <<"T">>, status |-> st,
       description |-> d, assignee |-> a, priority |-> DefaultPriority] :
          st \in CardStatuses, d \in { <<>>, <<"T", "2">> }, a \in CardAssignees }

\* slack_list_channels takes no argument; list_channels is called with
\* its default limit.
ListChannelsArgs == { [limit |-> 100] }

\* The state a tool reaches when it suspends or ends: the await, the
\* client calls made and what they returned since it last ran,
\* target_channel and the result.
ToolAt(pc, calls, got, target, res) ==
    [pc |-> pc, calls |-> calls, got |-> got, target |-> target, res |-> res]

\* blocks are built and the post or the update is sent; the tool awaits
\* its answer.
ToolPost(fn, args, target, display) ==
    ToolAt(PostCall(fn, args, target, display).call,
           <<PostCall(fn, args, target, display)>>, <<>>, target, TPending)

\* From target_channel on: the tool looks an assignee up with
\* find_user_by_name, which answers at once from a populated cache and
\* awaits users.list on an empty one.
ToolLookup(fn, args, target, users) ==
    IF LooksUpAssignee(fn, args)
    THEN IF CachePopulated(users)
         THEN LET run == ToolPost(fn, args, target,
                                  DisplayAssignee(args.assignee,
                                                  FindUserByName(users, args.assignee)))
              IN ToolAt(run.pc,
                        <<[call |-> "find_user_by_name", name |-> args.assignee]>> \o run.calls,
                        <<FindUserByName(users, args.assignee)>>, target, run.res)
         ELSE ToolAt("users_list",
                     <<[call |-> "find_user_by_name", name |-> args.assignee]>>,
                     <<>>, target, TPending)
    ELSE ToolPost(fn, args, target, IF fn = "slack_send_message" THEN <<>> ELSE args.assignee)

\* validate_and_resolve_channel has returned o: `if error: return`,
\* otherwise target_channel = channel_id.
ToolValidated(fn, args, o, users) ==
    IF ErrorReported(o.error)
    THEN ToolAt("done", <<>>, <<o>>, None, ToolReturned([ok |-> FALSE, error |-> o.error.chars]))
    ELSE LET run == ToolLookup(fn, args, o.id, users)
         IN ToolAt(run.pc, run.calls, <<o>> \o run.got, run.target, run.res)

\* _load_all_channels has returned with the cache given: a name that does
\* not resolve on a cache still empty makes validate_and_resolve_channel
\* load again (a second listing request), otherwise it returns.
ToolChannelsLoaded(fn, args, channels, users, again) ==
    IF ~again /\ ResolveChannel(channels, args.channel) = NoChannel /\ ~CachePopulated(channels)
    THEN ToolAt("conversations_list_again", <<>>, <<>>, None, TPending)
    ELSE ToolValidated(fn, args,
                       ChannelsResult("validate_and_resolve_channel", args.channel,
                                      channels, again),
                       users)

\* The tool is called. slack_list_channels awaits conversations.list in
\* list_channels. slack_send_message and slack_create_task: `if channel:`
\* validate_and_resolve_channel, which answers at once from a populated
\* cache and awaits conversations.list on an empty one. slack_update_task
\* takes the channel as it is given.
ToolCalled(fn, args, channels, users) ==
    IF fn = "slack_list_channels"
    THEN ToolAt("list_channels", <<[call |-> "list_channels", limit |-> args.limit]>>,
                <<>>, None, TPending)
    ELSE IF fn \in ValidatingTools /\ args.channel # <<>>
    THEN LET run == IF CachePopulated(channels)
                    THEN ToolChannelsLoaded(fn, args, channels, users, FALSE)
                    ELSE ToolAt("conversations_list", <<>>, <<>>, None, TPending)
         IN ToolAt(run.pc,
                   <<[call |-> "validate_and_resolve_channel", name |-> args.channel]>>
                       \o run.calls,
                   run.got, run.target, run.res)
    ELSE ToolLookup(fn, args, None, users)

\* The tool runs up to its next await.
TRunsTo(run) ==
    /\ tpc' = run.pc
    /\ tlog' = tlog \o run.calls
    /\ tgot' = tgot \o run.got
    /\ ttarget' = run.target
    /\ tres' = run.res

\* Tool fn is called.
TCallTool(fn, args) ==
    /\ tpc = "init"
    /\ tfn' = fn
    /\ targs' = args
    /\ TRunsTo(ToolCalled(fn, args, channelCache, userCache))
    /\ UNCHANGED <<userCache, channelCache, sOther, zvars, rvars, cvars>>

TSlackSendMessage(args) == TCallTool("slack_send_message", args)

TSlackCreateTask(args) == TCallTool("slack_create_task", args)

TSlackUpdateTask(args) == TCallTool("slack_update_task", args)

TSlackListChannels(args) == TCallTool("slack_list_channels", args)

\* conversations.list answers with the page: it is stored and, no page
\* following, the load returns to validate_and_resolve_channel.
TConversationsListPage ==
    /\ tpc \in {"conversations_list", "conversations_list_again"}
    /\ ~ScanContinues(NextCursor(chanDir, 1))
    /\ channelCache' = StoreChannels(channelCache, chanDir[1])
    /\ TRunsTo(ToolChannelsLoaded(tfn, targs, StoreChannels(channelCache, chanDir[1]),
                                  userCache, tpc = "conversations_list_again"))
    /\ UNCHANGED <<tfn, targs, userCache>>
    /\ UNCHANGED <<sOther, zvars, rvars, cvars>>

\* users.list answers with the page: its users are stored and, no page
\* following, find_user_by_name answers and the card is built and posted.
TUsersListPage ==
    /\ tpc = "users_list"
    /\ ~ScanContinues(NextCursor(userDir, 1))
    /\ userCache' = StoreUsers(userCache, userDir[1])
    /\ LET user == FindUserByName(StoreUsers(userCache, userDir[1]), targs.assignee)
           run == ToolPost(tfn, targs, ttarget, DisplayAssignee(targs.assignee, user))
       IN TRunsTo(ToolAt(run.pc, run.calls, <<user>>, ttarget, run.res))
    /\ UNCHANGED <<tfn, targs, channelCache>>
    /\ UNCHANGED <<sOther, zvars, rvars, cvars>>

\* chat.postMessage or chat.update answers: the tool returns the
\* serialized result.
TPosted ==
    /\ tpc \in {"chat_postMessage", "chat_update"}
    /\ LET response == PostResponse(tlog[Len(tlog)]) IN
       /\ tgot' = Append(tgot, response)
       /\ tres' = ToolReturned(PostResult(tfn, targs, response))
    /\ tpc' = "done"
    /\ UNCHANGED <<tfn, targs, tlog, ttarget>>
    /\ UNCHANGED notTools

\* conversations.list answers list_channels with a page of channels:
\* the tool returns their ids and names; the cache is not touched.
TChannelsListed ==
    /\ tpc = "list_channels"
    /\ LET listed == [i \in 1..Len(chanDir[1]) |-> ChannelRecord(chanDir[1][i])] IN
       /\ tgot' = Append(tgot, listed)
       /\ tres' = ToolReturned(listed)
    /\ tpc' = "done"
    /\ UNCHANGED <<tfn, targs, tlog, ttarget>>
    /\ UNCHANGED notTools

\* The pending request fails: the client logs the SlackApiError and raises
\* it again, and no handler in the tool catches it.
TRequestFails ==
    /\ tpc \in {"conversations_list", "conversations_list_again", "users_list",
                "chat_postMessage", "chat_update", "list_channels"}
    /\ tgot' = Append(tgot, [raised |-> "SlackApiError"])
    /\ tres' = ToolRaised("SlackApiError")
    /\ tpc' = "failed"
    /\ UNCHANGED <<tfn, targs, tlog, ttarget>>
    /\ UNCHANGED notTools

(***************************************************************************)
(* Specifications.                                                         *)
(***************************************************************************)
Init == ZInit /\ RIdle /\ TIdle /\ SIdle /\ CIdle

\* ZentaoClient operations called one after the other.
NextZentao ==
    \E p \in Ops :
        \/ ZQuiet /\ \E c \in Calls : ZCall(p, c) /\ UNCHANGED notZentao
        \/ \E r \in LoginResponses : ZLoginResponse(p, r) /\ UNCHANGED notZentao
        \/ \E r \in DataResponses : ZFirstResponse(p, r) /\ UNCHANGED notZentao
        \/ \E r \in LoginResponses : ZReloginResponse(p, r) /\ UNCHANGED notZentao
        \/ \E r \in DataResponses : ZRetryResponse(p, r) /\ UNCHANGED notZentao

SpecZentao == Init /\ [][NextZentao]_vars

\* ZentaoClient operations called concurrently, interleaved at every await.
NextZentaoConc ==
    \E p \in Ops :
        \/ ZCall(p, CallFor(p)) /\ UNCHANGED notZentao
        \/ \E r \in LoginResponses : ZLoginResponse(p, r) /\ UNCHANGED notZentao
        \/ \E r \in DataResponses : ZFirstResponse(p, r) /\ UNCHANGED notZentao
        \/ \E r \in LoginResponses : ZReloginResponse(p, r) /\ UNCHANGED notZentao
        \/ \E r \in DataResponses : ZRetryResponse(p, r) /\ UNCHANGED notZentao

SpecZentaoConc == Init /\ [][NextZentaoConc]_vars

\* The name resolution functions applied to every bounded directory and name.
InitResolve == ZInit /\ TIdle /\ RInit /\ CIdle

NextResolve ==
    \/ RResolveChannel
    \/ RConversationsListPage
    \/ RFindUserByName
    \/ RUsersListPage
    \/ RGetProjectByName
    \/ RProjectsListed
    \/ RRequestFails

SpecResolve == InitResolve /\ [][NextResolve]_vars

\* The population routines of one SlackClient called one after the other,
\* against every bounded backend directory.
InitSlack == ZInit /\ RIdle /\ TIdle /\ SInit /\ CIdle

NextSlack ==
    \E c \in SCalls :
        \/ SQuiet /\ SLoadAllUsers(c)
        \/ SUsersListPage(c)
        \/ SUsersListFails(c)
        \/ SQuiet /\ SLoadAllChannels(c)
        \/ SConversationsListPage(c)
        \/ SConversationsListFails(c)

SpecSlack == InitSlack /\ [][NextSlack]_vars

\* The name-resolution methods of one SlackClient, which populate the
\* caches on first use, against a few backend directories: an empty one,
\* some of two pages, some whose first page stores nothing.
SlackNames == { <<"a">>, <<"#", "a", "B">>, <<"B", "B">>, <<"#">> }

MemberOf(id) == CHOOSE m \in Members : m.id = id

ChannelOf(id) == CHOOSE ch \in Channels : ch.id = id

OpsUserDirs ==
    { FixedUserDir,
      << <<MemberOf("U4")>>, <<MemberOf("U1"), MemberOf("U2")>> >>,
      << <<MemberOf("U1")>>, <<MemberOf("U2")>> >> }

OpsChanDirs ==
    { FixedChanDir,
      << <<>> >>,
      << <<>>, <<ChannelOf("C2"), ChannelOf("C1")>> >> }

InitSlackOps ==
    /\ ZInit /\ RIdle /\ TIdle /\ CIdle
    /\ userDir \in OpsUserDirs
    /\ chanDir \in OpsChanDirs
    /\ endCursor = ""
    /\ SBlank

\* The methods called one after the other.
NextSlackOps ==
    \E c \in SCalls :
        \/ SQuiet /\ \E name \in SlackNames : SFindUserByName(c, name)
        \/ SQuiet /\ \E name \in SlackNames : SResolveChannel(c, name)
        \/ SQuiet /\ \E name \in SlackNames : SValidateAndResolveChannel(c, name)
        \/ SQuiet /\ SListWorkspaceMembers(c)
        \/ SUsersListPage(c)
        \/ SUsersListFails(c)
        \/ SConversationsListPage(c)
        \/ SConversationsListFails(c)

SpecSlackOps == InitSlackOps /\ [][NextSlackOps]_vars

\* find_user_by_name and resolve_channel called concurrently: a call may
\* start while others are suspended at a listing request.
NextSlackConc ==
    \E c \in SCalls :
        \/ \E name \in SlackNames : SFindUserByName(c, name)
        \/ \E name \in SlackNames : SResolveChannel(c, name)
        \/ SUsersListPage(c)
        \/ SUsersListFails(c)
        \/ SConversationsListPage(c)
        \/ SConversationsListFails(c)

SpecSlackConc == InitSlackOps /\ [][NextSlackConc]_vars

\* One call of a GitHubClient method, for every bounded argument list and
\* backend answer.
InitGitHub == ZInit /\ RIdle /\ TIdle /\ SIdle /\ GInit

NextGitHub ==
    \/ GFullRepo
    \/ GGetCommits
    \/ GGetPullRequests
    \/ GGetIssues
    \/ GGetWorkflowRuns
    \/ GRequestAnswered
    \/ GGraphql
    \/ GGraphqlAnswered
    \/ CRequestFails

SpecGitHub == InitGitHub /\ [][NextGitHub]_vars

\* A client that is new or holds the token of an earlier login, no call
\* in progress.
ZStarted == token \in {None, "t1"} /\ ZNoCalls

\* One call of create_bug or create_task, for every bounded argument list
\* and every answer of the backend.
InitZentaoBody == ZStarted /\ RIdle /\ TIdle /\ SIdle /\ BInit

NextZentaoBody ==
    \/ BCreateBug
    \/ BCreateTask
    \/ CLoginAnswered
    \/ CRequestAnswered
    \/ CReloginAnswered
    \/ CRetryAnswered

SpecZentaoBody == InitZentaoBody /\ [][NextZentaoBody]_vars

\* One call of build_task_blocks, for every bounded argument list.
InitTaskBlocks == ZInit /\ RIdle /\ TIdle /\ SIdle /\ KInit

NextTaskBlocks == KBuildTaskBlocks

SpecTaskBlocks == InitTaskBlocks /\ [][NextTaskBlocks]_vars

\* One call of list_projects, list_bugs or list_tasks, for every bounded
\* answer of the backend.
InitZentaoList == ZStarted /\ RIdle /\ TIdle /\ SIdle /\ LInit

NextZentaoList ==
    \/ LListProjects
    \/ LListBugs
    \/ LListTasks
    \/ CLoginAnswered
    \/ CRequestAnswered
    \/ CReloginAnswered
    \/ CRetryAnswered

SpecZentaoList == InitZentaoList /\ [][NextZentaoList]_vars

\* One call of load_config, for every bounded environment and config file.
InitLoadConfig == ZInit /\ RIdle /\ TIdle /\ SIdle /\ FInit

NextLoadConfig == FLoadConfig

SpecLoadConfig == InitLoadConfig /\ [][NextLoadConfig]_vars

\* The caches the client may hold when a tool is called.
ToolChannelCaches ==
    { <<>>, <<ChannelRecord(ChannelOf("C1"))>>,
      <<ChannelRecord(ChannelOf("C1")), ChannelRecord(ChannelOf("C2"))>> }

ToolUserCaches ==
    { <<>>, <<UserRecord(MemberOf("U1"))>>,
      <<UserRecord(MemberOf("U1")), UserRecord(MemberOf("U2"))>> }

\* A client with any of these caches; behind an empty cache a backend with
\* a one-page directory.
InitSlackTools ==
    /\ ZInit /\ RIdle /\ TIdle /\ CIdle
    /\ channelCache \in ToolChannelCaches
    /\ userCache \in ToolUserCaches
    /\ chanDir \in IF channelCache = <<>>
                   THEN { <<<<>>>>, <<<<ChannelOf("C1")>>>>, <<<<ChannelOf("C2"), ChannelOf("C1")>>>> }
                   ELSE {FixedChanDir}
    /\ userDir \in IF userCache = <<>>
                   THEN { <<<<>>>>, <<<<MemberOf("U3")>>>>, <<<<MemberOf("U1"), MemberOf("U2")>>>> }
                   ELSE {FixedUserDir}
    /\ endCursor = ""
    /\ spc = [c \in SCalls |-> "init"]
    /\ sfn = [c \in SCalls |-> None]
    /\ sarg = [c \in SCalls |-> <<>>]
    /\ slist = [c \in SCalls |-> <<>>]
    /\ snext = [c \in SCalls |-> <<>>]
    /\ safter = [c \in SCalls |-> <<>>]
    /\ sexc = [c \in SCalls |-> None]
    /\ sres = [c \in SCalls |-> SNoResult]

\* One call of a tool, for every bounded argument list.
NextSlackTools ==
    \/ \E args \in SendMessageArgs : TSlackSendMessage(args)
    \/ \E args \in CreateTaskArgs : TSlackCreateTask(args)
    \/ \E args \in UpdateTaskArgs : TSlackUpdateTask(args)
    \/ \E args \in ListChannelsArgs : TSlackListChannels(args)
    \/ TChannelsListed
    \/ TConversationsListPage
    \/ TUsersListPage
    \/ TPosted
    \/ TRequestFails

SpecSlackTools == InitSlackTools /\ [][NextSlackTools]_vars



(***************************************************************************)
(* Properties of ZentaoClient, sequential use (SpecZentao).                *)
(***************************************************************************)
\* The first operation on the client runs on a freshly constructed client.
FirstOp == CHOOSE p \in Ops : \A q \in Ops : p <= q

Is401(r) == r.kind = "response" /\ r.status = StatusUnauthorized

Is2xx(r) == r.kind = "response" /\ IsSuccess(r.status)

\* A login response that makes _ensure_token fail.
LoginFails(r) == ~Is2xx(r) \/ ~Truthy(r.body)

\* Operation p is the last one called so far.
LastCalled(p) == zpc[p] # "init" /\ (p = NumOps \/ zpc[p + 1] = "init")

\* C1: on a fresh client, when the first data request receives 401, the
\* re-login succeeds and the retried request receives 2xx, the operation
\* returns the retried request's payload after exactly two login calls and
\* exactly two data requests.
C1_RetryReturnsRetriedPayload ==
    LET p == FirstOp IN
    (/\ zpc[p] = "done"
     /\ Len(zresp[p]) = 2
     /\ Is401(zresp[p][1])
     /\ Is2xx(zresp[p][2]))
    => /\ zresult[p] = Returned(zresp[p][2].body)
       /\ zlogins[p] = 2
       /\ Len(zloginResp[p]) = 2
       /\ Len(zsent[p]) = 2

C1_Witness ==
    /\ zpc[FirstOp] = "done"
    /\ Len(zresp[FirstOp]) = 2
    /\ Is401(zresp[FirstOp][1])
    /\ Is2xx(zresp[FirstOp][2])
    /\ zresult[FirstOp].kind = "return"

\* C2: on a fresh client, when the first data request and the single retry
\* both receive 401, the operation fails with the second 401 error after
\* exactly two login calls and two data requests; no operation ever makes a
\* third login call or sends a third data request.
C2_SecondUnauthorizedPropagates ==
    /\ \A p \in Ops : zlogins[p] <= 2 /\ Len(zsent[p]) <= 2 /\ Len(zresp[p]) <= 2
    /\ LET p == FirstOp IN
       (/\ Len(zresp[p]) = 2
        /\ Is401(zresp[p][1])
        /\ Is401(zresp[p][2]))
       => /\ zpc[p] = "done"
          /\ zresult[p] = Raised([type |-> "HTTPStatusError", status |-> StatusUnauthorized,
                                  cause |-> None, causeStatus |-> 0])
          /\ zlogins[p] = 2
          /\ Len(zsent[p]) = 2

C2_Witness ==
    /\ zpc[FirstOp] = "done"
    /\ Len(zresp[FirstOp]) = 2
    /\ Is401(zresp[FirstOp][1])
    /\ Is401(zresp[FirstOp][2])
    /\ zresult[FirstOp].kind = "raise"

\* Operation p got a 401 for its first data request and its re-login failed.
ReloginFailed(p) ==
    /\ zpc[p] = "done"
    /\ Len(zresp[p]) = 1
    /\ Is401(zresp[p][1])
    /\ Len(zloginResp[p]) > 0
    /\ LoginFails(zloginResp[p][Len(zloginResp[p])])

\* C3 as stated: when the first data request receives 401 and the re-login
\* fails, the caller gets the original error of the request (the 401).
C3_OriginalErrorPropagates ==
    \A p \in Ops :
        ReloginFailed(p) => zresult[p] = Raised(HttpxError(zresp[p][1]))

\* C3 amended: when the first data request receives 401 and the re-login
\* fails, the caller gets the error raised by the login attempt
\* (ZentaoAPIError wrapping the login's HTTP or transport failure, or
\* ValueError when the login answered 2xx without a token), never the
\* HTTPStatusError of the 401.
C3_LoginErrorPropagates ==
    \A p \in Ops :
        ReloginFailed(p) =>
            LET r == zloginResp[p][Len(zloginResp[p])]
                e == zresult[p].exc
            IN /\ zresult[p].kind = "raise"
               /\ e.type # "HTTPStatusError"
               /\ IF Is2xx(r)
                  THEN e = ValueError
                  ELSE /\ e.type = "ZentaoAPIError"
                       /\ e.cause = HttpxError(r).type
                       /\ e.causeStatus = r.status

C3_Witness ==
    \E p \in Ops :
        /\ ReloginFailed(p)
        /\ zresult[p].exc.type = "ZentaoAPIError"
        /\ zresult[p].exc.cause = "HTTPStatusError"

\* C4: every login failure of _ensure_token (the call failed, or it
\* answered 2xx without a token) reaches the caller as ZentaoAPIError
\* wrapping the underlying cause.
C4_LoginFailureIsZentaoAPIError ==
    \A p \in Ops :
        (/\ Len(zloginResp[p]) > 0
         /\ Len(zloginResp[p]) = zlogins[p]
         /\ LoginFails(zloginResp[p][Len(zloginResp[p])]))
        => /\ zresult[p].kind = "raise"
           /\ zresult[p].exc.type = "ZentaoAPIError"
           /\ zresult[p].exc.cause # None

\* C5: whenever a data request receives a 401 (first attempt or retry) the
\* token is cleared: after an operation that ended with a 401 error the
\* client holds no token, and the next operation logs in before its request.
C5_UnauthorizedClearsToken ==
    \A p \in Ops :
        (/\ zpc[p] = "done"
         /\ zresult[p].kind = "raise"
         /\ zresult[p].exc.type = "HTTPStatusError"
         /\ zresult[p].exc.status = StatusUnauthorized)
        => /\ LastCalled(p) => ~Truthy(token)
           /\ (p < NumOps /\ zpc[p + 1] # "init") =>
                  /\ ~Truthy(ztokSeen[p + 1])
                  /\ zlogins[p + 1] >= 1

\* No response received so far, to a login or to a data request, is a 401.
NoUnauthorized ==
    \A p \in Ops :
        /\ \A i \in 1..Len(zresp[p]) : ~Is401(zresp[p][i])
        /\ \A i \in 1..Len(zloginResp[p]) : ~Is401(zloginResp[p][i])

\* Construction makes no login call; the first operation makes exactly one,
\* before its data request; every later operation makes none and sends the
\* token of the first.
LazyLoginOnce ==
    /\ (\A p \in Ops : zpc[p] = "init") => \A p \in Ops : zlogins[p] = 0
    /\ zpc[FirstOp] # "init" => zlogins[FirstOp] = 1
    /\ Len(zsent[FirstOp]) > 0 => Len(zloginResp[FirstOp]) = 1
    /\ \A p \in Ops :
          (p # FirstOp /\ zpc[p] # "init") =>
              /\ zlogins[p] = 0
              /\ Len(zsent[FirstOp]) > 0
              /\ \A i \in 1..Len(zsent[p]) : zsent[p][i].Token = zsent[FirstOp][1].Token

\* C6 as stated: in a sequential run in which no request receives 401,
\* construction makes no login call, the first operation makes exactly one
\* before its data request, every later operation makes none and sends the
\* same token.
C6_LazyLoginOnce_No401 == NoUnauthorized => LazyLoginOnce

\* The login of operation p has been answered, and the answer makes
\* _ensure_token fail (succeed).
LoginFailed(p) == Len(zloginResp[p]) = 1 /\ LoginFails(zloginResp[p][1])

LoginSucceeded(p) == Len(zloginResp[p]) = 1 /\ ~LoginFails(zloginResp[p][1])

\* C6 amended: in a sequential run in which no request receives 401,
\* construction makes no login call and the first operation makes exactly
\* one, before its data request. An operation makes a login call exactly
\* when the client holds no token at its start, one call, answered before
\* any data request, and its requests carry the token held at its start or
\* else the one its login returned. A failed login raises out of the
\* operation, which sends no data request, and leaves the client without a
\* token, so the next operation logs in again. After the first successful
\* login every later operation makes no login call and sends that token.
C6_LazyLoginUntilSuccess ==
    NoUnauthorized =>
        /\ (\A p \in Ops : zpc[p] = "init") => \A p \in Ops : zlogins[p] = 0
        /\ zpc[FirstOp] # "init" => zlogins[FirstOp] = 1
        /\ Len(zsent[FirstOp]) > 0 => Len(zloginResp[FirstOp]) = 1
        /\ \A p \in Ops :
              zpc[p] # "init" =>
                  /\ zlogins[p] = (IF Truthy(ztokSeen[p]) THEN 0 ELSE 1)
                  /\ Len(zsent[p]) > 0 => Len(zloginResp[p]) = zlogins[p]
                  /\ \A i \in 1..Len(zsent[p]) :
                        zsent[p][i].Token = (IF Truthy(ztokSeen[p]) THEN ztokSeen[p]
                                             ELSE zloginResp[p][1].body)
                  /\ LoginFailed(p) =>
                        /\ zpc[p] = "done"
                        /\ zresult[p].kind = "raise"
                        /\ Len(zsent[p]) = 0
                        /\ LastCalled(p) => ~Truthy(token)
                        /\ (p < NumOps /\ zpc[p + 1] # "init") => zlogins[p + 1] = 1
                  /\ LoginSucceeded(p) =>
                        \A q \in Ops :
                            (q > p /\ zpc[q] # "init") =>
                                /\ zlogins[q] = 0
                                /\ \A i \in 1..Len(zsent[q]) :
                                      zsent[q][i].Token = zloginResp[p][1].body

\* The login of the first operation failed with a 500 and the operation
\* raised; the next one logged in again, sent the new token and returned.
C6_Witness ==
    /\ NoUnauthorized
    /\ LoginFailed(FirstOp)
    /\ zloginResp[FirstOp][1].status = 500
    /\ zresult[FirstOp].kind = "raise"
    /\ zpc[FirstOp + 1] = "done"
    /\ zlogins[FirstOp + 1] = 1
    /\ LoginSucceeded(FirstOp + 1)
    /\ zresult[FirstOp + 1].kind = "return"
    /\ zsent[FirstOp + 1][1].Token = token

\* C8: when the first data request fails with anything but a 401 (another
\* non-2xx status, a timeout, a connection failure) the operation raises
\* that error, makes no re-login and no second request, and leaves the
\* token as it was.
C8_OtherFailureNotRetried ==
    \A p \in Ops :
        (/\ Len(zresp[p]) > 0
         /\ ~Is2xx(zresp[p][1])
         /\ ~Is401(zresp[p][1]))
        => /\ zpc[p] = "done"
           /\ zresult[p] = Raised(HttpxError(zresp[p][1]))
           /\ Len(zsent[p]) = 1
           /\ zlogins[p] = Len(zloginResp[p])
           /\ zlogins[p] = (IF Truthy(ztokSeen[p]) THEN 0 ELSE 1)
           /\ LastCalled(p) => token = zsent[p][1].Token

C8_Witness ==
    /\ \E p \in Ops :
          /\ zpc[p] = "done"
          /\ Len(zresp[p]) = 1
          /\ zresp[p][1].kind = "response"
          /\ zresp[p][1].status \in OtherErrorStatuses
          /\ zresult[p].kind = "raise"
    /\ \E p \in Ops :
          /\ zpc[p] = "done"
          /\ Len(zresp[p]) = 1
          /\ zresp[p][1].kind = "transport"

\* C26: the retried request of an operation has the method, path and
\* params or body of its first attempt, and carries the token that the
\* operation's own re-login, made after the 401, has just obtained.
C26_RetryRepeatsRequestWithNewToken ==
    \A p \in Ops :
        Len(zsent[p]) = 2 =>
            /\ zsent[p][2].method = zsent[p][1].method
            /\ zsent[p][2].path = zsent[p][1].path
            /\ zsent[p][2].arg = zsent[p][1].arg
            /\ zsent[p][2].method = zcall[p].method
            /\ Is401(zresp[p][1])
            /\ zlogins[p] = (IF Truthy(ztokSeen[p]) THEN 1 ELSE 2)
            /\ Len(zloginResp[p]) = zlogins[p]
            /\ Is2xx(zloginResp[p][Len(zloginResp[p])])
            /\ zsent[p][2].Token = zloginResp[p][Len(zloginResp[p])].body

C26_Witness ==
    \E p \in Ops :
        /\ zcall[p].helper = "_put"
        /\ Truthy(ztokSeen[p])
        /\ Len(zsent[p]) = 2
        /\ zsent[p][1].Token = ztokSeen[p]
        /\ zsent[p][2].Token # zsent[p][1].Token
        /\ zsent[p][2].arg = "status=y"

(***************************************************************************)
(* Properties of ZentaoClient, concurrent use (SpecZentaoConc).            *)
(***************************************************************************)
\* Login requests sent and not yet answered.
LoginsInFlight == Cardinality({p \in Ops : zpc[p] \in {"login1", "login2"}})

\* C7 as stated: with concurrent operations on one client, at most one
\* login request is in flight at any time.
C7_SingleLoginInFlight == LoginsInFlight <= 1

\* C7 amended: the client has no single-flight guard; an operation sends a
\* login request only at a moment when the client holds no token, so every
\* operation that finds the token empty has its own login in flight, up to
\* one per running operation.
C7_LoginOnlyWithoutToken ==
    [][\A p \in Ops : zlogins'[p] # zlogins[p] =>
            /\ ~Truthy(token')
            /\ zlogins'[p] = zlogins[p] + 1
            /\ zpc'[p] \in {"login1", "login2"}]_vars

C7_Witness ==
    /\ LoginsInFlight >= 2
    /\ token = None

\* The awaits of an operation, in the order it reaches them.
ZRank(pc) ==
    CASE pc = "init" -> 0
      [] pc = "login1" -> 1
      [] pc = "req1" -> 2
      [] pc = "login2" -> 3
      [] pc = "req2" -> 4
      [] pc = "done" -> 5

\* C25: with concurrent operations on one client and any pattern of
\* backend responses, after every step an operation has sent at most two
\* data requests and made at most two login calls, every resumption moves
\* it forward to a later await or to its end, and it has ended once its
\* second data request is answered; a 401 for its first data request makes
\* it clear the token and make exactly one login call of its own (two in
\* all when it also logged in before the request), whatever the other
\* operations have done to the token.
C25_BoundedAttemptsUnderConcurrency ==
    [][\A p \in Ops :
          /\ zlogins'[p] <= 2 /\ Len(zsent'[p]) <= 2 /\ Len(zresp'[p]) <= 2
          /\ Len(zresp'[p]) = 2 => zpc'[p] = "done"
          /\ zpc'[p] = "done" <=> zresult'[p] # Pending
          /\ zpc'[p] # zpc[p] => ZRank(zpc'[p]) > ZRank(zpc[p])
          /\ (Len(zresp'[p]) > 0 /\ Is401(zresp'[p][1])) =>
                 /\ zlogins'[p] = (IF Truthy(ztokSeen'[p]) THEN 1 ELSE 2)
                 /\ zpc'[p] \in {"login2", "req2", "done"}
          /\ (Len(zresp[p]) = 0 /\ Len(zresp'[p]) = 1 /\ Is401(zresp'[p][1])) =>
                 /\ token' = None
                 /\ zlogins'[p] = zlogins[p] + 1
                 /\ zpc'[p] = "login2"]_vars

\* Operation q has re-authenticated and sent its retry with the new token;
\* operation p, called after that, sent the new token, got a 401 and is
\* making its own login call.
C25_Witness ==
    \E p, q \in Ops :
        /\ p # q
        /\ zpc[q] = "req2"
        /\ zsent[q][1].Token # zsent[q][2].Token
        /\ zpc[p] = "login2"
        /\ zsent[p] = <<Request(zcall[p], zsent[q][2].Token)>>
        /\ zlogins[p] = 1
        /\ token = None

\* C28: under any interleaving of concurrent operations at the network
\* awaits, no data request, first attempt or retry, is sent with an empty
\* Token header.
C28_NoEmptyTokenHeader ==
    \A p \in Ops : \A i \in 1..Len(zsent[p]) : zsent[p][i].Token \notin {"", None}

\* Operation p cleared the token and awaits its re-login; operation q's
\* login has set a token since, and q has sent its request with it.
C28_Witness ==
    \E p, q \in Ops :
        /\ p # q
        /\ zpc[p] = "login2"
        /\ zpc[q] = "req1"
        /\ Len(zloginResp[q]) = 1
        /\ Truthy(token)
        /\ zsent[q][1].Token = token

(***************************************************************************)
(* Properties of name resolution (SpecResolve).                            *)
(***************************************************************************)
\* The name asked for, as the function normalizes it.
RNormalized ==
    CASE rfn = "resolve_channel" -> ChannelNameClean(rquery)
      [] rfn = "find_user_by_name" -> UserNameLower(rquery)
      [] rfn = "get_project_by_name" -> ProjectNameLower(rquery)

\* The names an entry is matched by, lowercased.
RNamesOf(e) ==
    CASE rfn = "resolve_channel" -> {Lower(e.name)}
      [] rfn = "find_user_by_name" ->
             {Lower(e.real_name), Lower(e.display_name), Lower(e.name)}
      [] rfn = "get_project_by_name" -> {Lower(e.title)}

\* Python's None, as the function's return type has it.
RNone ==
    CASE rfn = "resolve_channel" -> NoChannel
      [] rfn = "find_user_by_name" -> NoUser
      [] rfn = "get_project_by_name" -> NoProject

\* Positions of the entries that match exactly, and of those that contain
\* the normalized name.
RExactAt == { i \in 1..Len(rdir) : RNormalized \in RNamesOf(rdir[i]) }

RFuzzyAt == { i \in 1..Len(rdir) : \E n \in RNamesOf(rdir[i]) : Contains(RNormalized, n) }

RIsFirst(i, S) == i \in S /\ \A j \in S : i <= j

\* Exact match wins over an earlier substring match; in each phase the
\* first qualifying entry in iteration order; None when nothing matches.
RTwoPhase ==
    /\ RExactAt # {} => \E i \in RExactAt : RIsFirst(i, RExactAt) /\ rres = rdir[i]
    /\ (RExactAt = {} /\ RFuzzyAt # {}) =>
           \E i \in RFuzzyAt : RIsFirst(i, RFuzzyAt) /\ rres = rdir[i]
    /\ (RExactAt = {} /\ RFuzzyAt = {}) => rres = RNone

\* C10 as stated: find_user_by_name, resolve_channel and
\* get_project_by_name return the first entry that matches the normalized
\* name exactly, else the first entry that contains it, else None.
C10_ExactThenFuzzy == rdone => RTwoPhase

\* C10 amended: the same, but resolve_channel returns None for a name that
\* is empty after normalization, although every cached name contains it.
C10_ExactThenFuzzy_NonEmptyChannel ==
    rdone => IF rfn = "resolve_channel" /\ RNormalized = <<>>
             THEN rres = NoChannel
             ELSE RTwoPhase

\* An exact match is returned although a substring match comes before it.
C10_Witness ==
    /\ rdone
    /\ rfn = "resolve_channel"
    /\ RExactAt # {}
    /\ \E i \in RFuzzyAt : \A j \in RExactAt : i < j
    /\ \E j \in RExactAt : rres = rdir[j]

(***************************************************************************)
(* Properties of the Slack directory caches (SpecSlack).                   *)
(***************************************************************************)
\* Call c is the first call of its routine that returned normally.
SFirstCompleted(c) ==
    /\ spc[c] = "done"
    /\ \A b \in SCalls : (b < c /\ sfn[b] = sfn[c]) => spc[b] # "done"

\* Call d is a later call of the routine of call c, and it has started.
SLaterCall(c, d) == c < d /\ sfn[d] = sfn[c] /\ sfn[c] # None

\* Call d sent no listing request and ended with the cache as call c left it.
SNoRescan(c, d) ==
    /\ spc[d] = "done"
    /\ slist[d] = <<>>
    /\ safter[d] = safter[c]

\* C9 (as stated): once _load_all_users or _load_all_channels has completed,
\* a later sequential call of the same routine sends no listing request and
\* leaves the cache as the first call left it, whatever the backend
\* directory holds.
C9_SecondLoadIsNoOp ==
    \A c, d \in SCalls :
        (SFirstCompleted(c) /\ SLaterCall(c, d)) => SNoRescan(c, d)

\* C9 (amended): the later call is a no-op when the completed call left the
\* cache non-empty; when it left the cache empty (an empty directory, or
\* only deleted users and bots) the later call scans the directory again.
C9_SecondLoadIsNoOp_NonEmptyCache ==
    \A c, d \in SCalls :
        (SFirstCompleted(c) /\ SLaterCall(c, d)) =>
            IF safter[c] # <<>>
            THEN SNoRescan(c, d)
            ELSE Len(slist[d]) >= 1 /\ slist[d][1] = None

\* A full scan of two pages filled the cache and a later call of the same
\* routine has returned.
C9_Witness ==
    \E c, d \in SCalls :
        /\ SFirstCompleted(c) /\ SLaterCall(c, d)
        /\ Len(slist[c]) >= 2
        /\ safter[c] # <<>>
        /\ spc[d] = "done"

(***************************************************************************)
(* Properties of validate_and_resolve_channel (SpecSlackOps).              *)
(***************************************************************************)
\* Call c is a validate_and_resolve_channel that has returned.
SValidated(c) == sfn[c] = "validate_and_resolve_channel" /\ spc[c] = "done"

\* C11: whenever validate_and_resolve_channel returns (population did not
\* raise), exactly one component of the pair is populated: a channel id
\* with error None, or id None with a non-empty error string.
C11_ExactlyOneComponent ==
    \A c \in SCalls :
        SValidated(c) =>
            \/ /\ Truthy(sres[c].id)
               /\ sres[c].error = OptNone
            \/ /\ sres[c].id = None
               /\ ~sres[c].error.none
               /\ sres[c].error.chars # <<>>

\* One call has returned an id and another an error, the second one after
\* scanning the directory.
C11_Witness ==
    \E c, d \in SCalls :
        /\ SValidated(c) /\ Truthy(sres[c].id)
        /\ SValidated(d) /\ sres[d].id = None /\ Len(slist[d]) >= 2

\* C12: when validate_and_resolve_channel does not resolve the name, its
\* error string contains "#" followed by the name of every channel that
\* is in the channel cache when it returns.
C12_ErrorListsCachedChannels ==
    \A c \in SCalls :
        (SValidated(c) /\ sres[c].id = None) =>
            \A i \in 1..Len(safter[c]) :
                Contains(<<"#">> \o safter[c][i].name, sres[c].error.chars)

\* An unresolved name with two channels in the cache.
C12_Witness ==
    \E c \in SCalls :
        /\ SValidated(c) /\ sres[c].id = None
        /\ Len(safter[c]) = 2
        /\ safter[c] = channelCache

(***************************************************************************)
(* Properties of the population scans (SpecSlack).                         *)
(***************************************************************************)
\* The directory the routine of call c lists.
SDirOf(c) == IF sfn[c] = "_load_all_users" THEN userDir ELSE chanDir

\* Call c found its cache empty and scanned.
SScanned(c) == sfn[c] \in {"_load_all_users", "_load_all_channels"} /\ slist[c] # <<>>

\* C13: a scan sends its first listing request without a cursor and each
\* later one with the next_cursor of the response before it, goes on only
\* after a non-empty next_cursor, and against a directory of N pages ends
\* after exactly N requests, at the first absent or empty next_cursor.
C13_CursorChain ==
    \A c \in SCalls :
        SScanned(c) =>
            /\ slist[c][1] = None
            /\ \A i \in 2..Len(slist[c]) :
                   Truthy(snext[c][i - 1]) /\ slist[c][i] = snext[c][i - 1]
            /\ Len(slist[c]) <= Len(SDirOf(c))
            /\ spc[c] = "done" =>
                   /\ Len(slist[c]) = Len(SDirOf(c))
                   /\ Len(snext[c]) = Len(SDirOf(c))
                   /\ ~Truthy(snext[c][Len(snext[c])])

\* A scan of a directory of MaxPages pages has completed, the last page
\* coming without a next_cursor key.
C13_Witness ==
    \E c \in SCalls :
        /\ SScanned(c) /\ spc[c] = "done"
        /\ Len(slist[c]) = MaxPages
        /\ snext[c][Len(snext[c])] = None

\* The entries of all pages of a directory, as a set.
DirEntries(dir) == UNION { { dir[k][i] : i \in 1..Len(dir[k]) } : k \in 1..Len(dir) }

\* C14: the user cache never holds a member that the directory flags as
\* deleted or as a bot; after a scan that completed without error it holds
\* exactly the other members of all pages, one record per user id.
C14_UserCacheContent ==
    /\ \A i \in 1..Len(userCache) :
           \A m \in DirEntries(userDir) :
               (m.deleted \/ m.is_bot) => userCache[i].id # m.id
    /\ \A c \in SCalls :
           (SScanned(c) /\ sfn[c] = "_load_all_users" /\ spc[c] = "done") =>
               /\ { safter[c][i] : i \in 1..Len(safter[c]) }
                  = { UserRecord(m) : m \in { u \in DirEntries(userDir) : ~u.deleted /\ ~u.is_bot } }
               /\ \A i, j \in 1..Len(safter[c]) :
                      safter[c][i].id = safter[c][j].id => i = j
               /\ userCache = safter[c]

\* A completed scan of two pages that skipped a flagged member and stored
\* two users.
C14_Witness ==
    \E c \in SCalls :
        /\ SScanned(c) /\ sfn[c] = "_load_all_users" /\ spc[c] = "done"
        /\ Len(slist[c]) = 2
        /\ Len(userCache) = 2
        /\ \E m \in DirEntries(userDir) : m.deleted \/ m.is_bot

(***************************************************************************)
(* Properties of the methods that populate a cache on first use            *)
(* (SpecSlackOps, SpecSlackConc).                                          *)
(***************************************************************************)
\* Call c works on the user cache (else on the channel cache).
SOnUsers(c) == sfn[c] \in {"_load_all_users", "find_user_by_name", "list_workspace_members"}

RECURSIVE StoredUsers(_, _)
\* The user cache a scan from an empty cache holds after pages 1..n.
StoredUsers(dir, n) == IF n = 0 THEN <<>> ELSE StoreUsers(StoredUsers(dir, n - 1), dir[n])

RECURSIVE StoredChannels(_, _)
\* The channel cache a scan from an empty cache holds after pages 1..n.
StoredChannels(dir, n) ==
    IF n = 0 THEN <<>> ELSE StoreChannels(StoredChannels(dir, n - 1), dir[n])

\* The cache of call c's kind after pages 1..n of a scan from empty.
SStored(c, n) == IF SOnUsers(c) THEN StoredUsers(userDir, n) ELSE StoredChannels(chanDir, n)

\* The request of call c that failed is the one for page SFailedPage(c):
\* the requests it sent since the last one without a cursor.
SFailedPage(c) ==
    Len(slist[c]) + 1 - (CHOOSE i \in 1..Len(slist[c]) :
                             slist[c][i] = None /\ \A j \in (i + 1)..Len(slist[c]) : slist[c][j] # None)

\* C15: when the listing request for page k fails, the call ends with the
\* SlackApiError and no return value, the cache holds exactly what pages
\* 1..k-1 stored, and the call sends no further request.
C15_ScanFailurePropagates ==
    /\ [](\A c \in SCalls :
            spc[c] = "failed" =>
                /\ sexc[c] = "SlackApiError"
                /\ sres[c] = SNoResult
                /\ safter[c] = SStored(c, SFailedPage(c) - 1))
    /\ [][\A c \in SCalls :
            spc[c] = "failed" =>
                /\ spc'[c] = "failed"
                /\ slist'[c] = slist[c]
                /\ safter'[c] = safter[c]]_vars

\* resolve_channel failed at page 2 after page 1 had stored a channel, and
\* find_user_by_name failed as well.
C15_Witness ==
    \E c, d \in SCalls :
        /\ sfn[c] = "resolve_channel" /\ spc[c] = "failed"
        /\ SFailedPage(c) = 2
        /\ safter[c] # <<>>
        /\ sfn[d] = "find_user_by_name" /\ spc[d] = "failed"

\* C16: with calls interleaved at every listing await, a resolve_channel or
\* find_user_by_name that found the cache empty when it started and has
\* returned, returned what it returns against the cache of one complete
\* scan, and from then on the cache is the cache of one complete scan.
C16_BenignRace ==
    \A c \in SCalls :
        (spc[c] = "done" /\ slist[c] # <<>>) =>
            IF SOnUsers(c)
            THEN /\ sres[c] = FindUserByName(StoredUsers(userDir, Len(userDir)), sarg[c])
                 /\ userCache = StoredUsers(userDir, Len(userDir))
            ELSE /\ sres[c] = ResolveChannel(StoredChannels(chanDir, Len(chanDir)), sarg[c])
                 /\ channelCache = StoredChannels(chanDir, Len(chanDir))

\* Two resolve_channel calls both scanned a two-page directory, the second
\* starting before the first got its first page, and both found a channel.
C16_Witness ==
    \E c, d \in SCalls :
        /\ c # d
        /\ sfn[c] = "resolve_channel" /\ sfn[d] = "resolve_channel"
        /\ spc[c] = "done" /\ spc[d] = "done"
        /\ Len(slist[c]) = 2 /\ Len(slist[d]) = 2
        /\ sres[c].id # None /\ sres[d].id # None

(***************************************************************************)
(* Properties of GitHubClient (SpecGitHub).                                *)
(***************************************************************************)
HasSlash(str) == \E i \in 1..Len(str) : str[i] = "/"

\* C17: _full_repo returns a name with "/" unchanged, prefixes a name
\* without "/" with the default owner and "/" when an owner is configured,
\* and returns it unchanged when none is.
C17_FullRepo ==
    (cfn = "_full_repo" /\ cdone) =>
        /\ HasSlash(cargs.repo) => cout.value = cargs.repo
        /\ (~HasSlash(cargs.repo) /\ cargs.owner # <<>>) =>
               /\ Len(cout.value) = Len(cargs.owner) + 1 + Len(cargs.repo)
               /\ SubSeq(cout.value, 1, Len(cargs.owner)) = cargs.owner
               /\ cout.value[Len(cargs.owner) + 1] = "/"
               /\ SubSeq(cout.value, Len(cargs.owner) + 2, Len(cout.value)) = cargs.repo
        /\ cargs.owner = <<>> => cout.value = cargs.repo

\* A short name was prefixed with the owner.
C17_Witness ==
    /\ cfn = "_full_repo" /\ cdone
    /\ cargs.repo = <<"a", "a">>
    /\ cargs.owner = <<"o">>
    /\ cout.value = <<"o", "/", "a", "a">>

\* C18: get_issues returns exactly the entries of the response that have
\* no pull_request key, in the order of the response.
C18_IssuesWithoutPullRequests ==
    (cfn = "get_issues" /\ cdone) =>
        /\ \A i \in 1..Len(cargs.result) :
               (cargs.result[i].pull_request = Absent)
                   <=> (\E j \in 1..Len(cout.value) : cout.value[j] = cargs.result[i])
        /\ \A j \in 1..Len(cout.value) :
               \E i \in 1..Len(cargs.result) : cout.value[j] = cargs.result[i]
        /\ \A j, k \in 1..Len(cout.value) :
               j < k => cout.value[j].number < cout.value[k].number

\* A response with an issue and an entry whose pull_request key is null.
C18_Witness ==
    /\ cfn = "get_issues" /\ cdone
    /\ Len(cargs.result) = 2
    /\ cargs.result[1].pull_request = None
    /\ cargs.result[2].pull_request = Absent
    /\ Len(cout.value) = 1

\* The optional filters of the listing methods: argument, request
\* parameter and the argument's default.
GFilters(fn) ==
    CASE fn = "get_commits" ->
            { [arg |-> "branch", key |-> "sha", default |-> ""],
              [arg |-> "since", key |-> "since", default |-> None],
              [arg |-> "until", key |-> "until", default |-> None] }
      [] fn = "get_pull_requests" ->
            { [arg |-> "state", key |-> "state", default |-> "open"] }
      [] fn = "get_issues" ->
            { [arg |-> "state", key |-> "state", default |-> "open"],
              [arg |-> "labels", key |-> "labels", default |-> None] }
      [] fn = "get_workflow_runs" ->
            { [arg |-> "status", key |-> "status", default |-> None] }
      [] OTHER -> {}

\* Filter f of the finished call is in the request only with a non-empty,
\* non-default value, and not as an empty string.
GFilterOmittedUnlessSet(f) ==
    f.key \in DictKeys(cout.params) =>
        /\ Truthy(cargs[f.arg])
        /\ cargs[f.arg] # f.default
        /\ DictValue(cout.params, f.key) # Str("")

\* Filter f of the finished call is in the request exactly when its value
\* is non-empty, with that value.
GFilterSentIffNonEmpty(f) ==
    /\ f.key \in DictKeys(cout.params) <=> Truthy(cargs[f.arg])
    /\ f.key \in DictKeys(cout.params) => DictValue(cout.params, f.key) = Str(cargs[f.arg])

\* C19 (as stated): in get_commits, get_pull_requests, get_issues and
\* get_workflow_runs every optional filter (branch, since, until, state,
\* labels, status) is a request parameter only when its value is non-empty
\* and non-default, and none is sent as an empty string.
C19_FiltersOmittedUnlessSet ==
    (cfn \in GitHubMethods \ {"_full_repo"} /\ cdone) =>
        \A f \in GFilters(cfn) : GFilterOmittedUnlessSet(f)

\* C19 (amended): branch, since, until, labels and status are request
\* parameters exactly when non-empty; state is always a request parameter,
\* with the value given, which may be the default "open" or "".
C19_FiltersOmittedUnlessSet_StateAlwaysSent ==
    (cfn \in GitHubMethods \ {"_full_repo"} /\ cdone) =>
        \A f \in GFilters(cfn) :
            IF f.arg = "state"
            THEN /\ "state" \in DictKeys(cout.params)
                 /\ DictValue(cout.params, "state") = Str(cargs.state)
            ELSE GFilterSentIffNonEmpty(f)

\* get_issues with an empty state and an empty labels filter: state is
\* sent, labels is not.
C19_Witness ==
    /\ cfn = "get_issues" /\ cdone
    /\ cargs.state = "" /\ cargs.labels = ""
    /\ DictKeys(cout.params) = {"state", "per_page"}

(***************************************************************************)
(* Properties of create_bug and create_task (SpecZentaoBody).              *)
(***************************************************************************)
\* The fields a caller must give, by method.
BRequired(fn) ==
    IF fn = "create_bug" THEN { [arg |-> "product_id", key |-> "product"], [arg |-> "title", key |-> "title"] }
    ELSE { [arg |-> "name", key |-> "name"] }

\* The optional fields whose default is empty or zero, by method.
BOptionalEmptyDefault(fn) ==
    IF fn = "create_bug" THEN {"steps", "assignedTo"} ELSE {"assignedTo", "desc", "estimate"}

\* The value of a field is empty or unset.
BEmpty(v) == v \in {Str(""), Num(0)}

\* The body holds every key of keys with the value of the argument of the
\* same name.
BHolds(keys) ==
    \A k \in keys :
        /\ k \in DictKeys(cout.body)
        /\ DictValue(cout.body, k) \in {Str(cargs[k]), Num(cargs[k])}

\* C20 (as stated): the body holds the required fields, and an optional
\* field (steps, assignedTo, desc, estimate) only when its argument is
\* non-empty: an empty or unset one is not a key of the body.
C20_EmptyOptionalsOmitted ==
    ((cfn \in ZentaoBodyMethods) /\ cdone) =>
        /\ \A r \in BRequired(cfn) : r.key \in DictKeys(cout.body)
        /\ \A k \in BOptionalEmptyDefault(cfn) :
               k \in DictKeys(cout.body) => ~BEmpty(DictValue(cout.body, k))

\* C20 (amended): create_bug always sends product, title, steps, severity,
\* pri and type, create_task always sends name, pri and estimate, with the
\* values given, empty steps and a zero estimate included; only assignedTo
\* (both methods) and desc (create_task) are keys exactly when non-empty.
C20_EmptyOptionalsOmitted_OnlyAssignedToAndDesc ==
    /\ (cfn = "create_bug" /\ cdone) =>
           /\ DictKeys(cout.body) \in { {"product", "title", "steps", "severity", "pri", "type"},
                                        {"product", "title", "steps", "severity", "pri", "type", "assignedTo"} }
           /\ DictValue(cout.body, "product") = Num(cargs.product_id)
           /\ DictValue(cout.body, "type") = Str(cargs.bug_type)
           /\ BHolds({"title", "steps", "severity", "pri"})
           /\ "assignedTo" \in DictKeys(cout.body) <=> cargs.assignedTo # ""
           /\ cargs.assignedTo # "" => BHolds({"assignedTo"})
    /\ (cfn = "create_task" /\ cdone) =>
           /\ {"name", "pri", "estimate"} \subseteq DictKeys(cout.body)
           /\ DictKeys(cout.body) \subseteq {"name", "pri", "estimate", "assignedTo", "desc"}
           /\ BHolds({"name", "pri", "estimate"})
           /\ "assignedTo" \in DictKeys(cout.body) <=> cargs.assignedTo # ""
           /\ "desc" \in DictKeys(cout.body) <=> cargs.desc # ""
           /\ BHolds({ k \in {"assignedTo", "desc"} : cargs[k] # "" })

\* create_task without assignee and description and with the default
\* estimate: the body has estimate 0 and neither assignedTo nor desc.
C20_Witness ==
    /\ cfn = "create_task" /\ cdone
    /\ cargs.assignedTo = "" /\ cargs.desc = "" /\ cargs.estimate = 0
    /\ DictKeys(cout.body) = {"name", "pri", "estimate"}
    /\ DictValue(cout.body, "estimate") = Num(0)

(***************************************************************************)
(* Properties of build_task_blocks (SpecTaskBlocks).                       *)
(***************************************************************************)
\* Positions of the sections of a block list with and without fields.
KFieldsSections(blocks) ==
    { i \in 1..Len(blocks) : blocks[i].type = "section" /\ "fields" \in DOMAIN blocks[i] }

KTextSections(blocks) ==
    { i \in 1..Len(blocks) : blocks[i].type = "section" /\ "fields" \notin DOMAIN blocks[i] }

\* C21: build_task_blocks returns a list whose first element is a header
\* containing the title and whose second is a divider; it has exactly one
\* fields section, holding a status field and a priority field, followed by
\* an assignee field exactly when assignee is non-empty; it has exactly one
\* description section when description is non-empty and none otherwise;
\* its last element is the context footer.
C21_TaskCardLayout ==
    (cfn = "build_task_blocks" /\ cdone) =>
        LET blocks == cout.value IN
        /\ Len(blocks) >= 4
        /\ blocks[1].type = "header"
        /\ Contains(cargs.title, blocks[1].text.text)
        /\ blocks[2].type = "divider"
        /\ Cardinality(KFieldsSections(blocks)) = 1
        /\ \A i \in KFieldsSections(blocks) :
              LET fields == blocks[i].fields IN
              /\ Len(fields) = (IF cargs.assignee # <<>> THEN 3 ELSE 2)
              /\ fields[1].text = StatusLabel \o cargs.status
              /\ fields[2].text = PriorityLabel \o cargs.priority
              /\ cargs.assignee # <<>> => fields[3].text = AssigneeLabel \o cargs.assignee
        /\ Cardinality(KTextSections(blocks)) = (IF cargs.description # <<>> THEN 1 ELSE 0)
        /\ \A i \in KTextSections(blocks) :
              blocks[i].text.text = DescriptionLabel \o cargs.description
        /\ blocks[Len(blocks)].type = "context"
        /\ blocks[Len(blocks)].elements = << Mrkdwn(FooterText) >>

C21_Witness ==
    /\ cfn = "build_task_blocks" /\ cdone
    /\ cargs.assignee = <<>>
    /\ cargs.description # <<>>
    /\ Len(cout.value) = 5
    /\ Len(cout.value[3].fields) = 2

(***************************************************************************)
(* Properties of GitHubClient._graphql (SpecGitHub).                       *)
(***************************************************************************)
\* _graphql has been resumed with a 2xx response.
GAnswered2xx == cfn = "_graphql" /\ cended /\ Is2xx(cargs.response)

\* C22: for a 2xx GraphQL response whose body contains an errors key,
\* _graphql returns nothing and raises an error whose message carries the
\* message of the first error; for a body without the key it returns the
\* data field, an empty mapping when the field is absent.
C22_GraphqlErrorsAreFatal ==
    GAnswered2xx =>
        LET body == cargs.response.body IN
        IF "errors" \in body.keys
        THEN /\ cout.result.kind = "raise"
             /\ cout.result.type = "Exception"
             /\ Contains(FirstErrorMessage(body.errors), cout.result.message)
             /\ "message" \in body.errors[1].keys =>
                    cout.result.message = GraphqlErrorPrefix \o body.errors[1].message
        ELSE /\ cout.result.kind = "return"
             /\ cout.result.value = (IF "data" \in body.keys THEN body.data ELSE DictOf(<<>>))

C22_Witness ==
    /\ GAnswered2xx
    /\ cargs.response.body.keys = {"data", "errors"}
    /\ cargs.response.body.data # Null
    /\ Len(cargs.response.body.errors) = 2
    /\ cargs.response.body.errors[1].message = <<"B", "a", "d">>
    /\ cargs.response.body.errors[2].message = <<"N", "o">>
    /\ cout.result.kind = "raise"

(***************************************************************************)
(* Properties of the ZentaoClient list operations (SpecZentaoList).        *)
(***************************************************************************)
\* The key of the answer read by the method called, and its person fields.
LListKey ==
    CASE cfn = "list_projects" -> "projects"
      [] cfn = "list_bugs" -> "bugs"
      [] cfn = "list_tasks" -> "tasks"

LPersonFields ==
    CASE cfn = "list_projects" -> {"PM"}
      [] cfn = "list_bugs" -> {"assignedTo", "openedBy"}
      [] cfn = "list_tasks" -> {"assignedTo"}

\* The person field key of entry e is normalized to out.
LNormalized(e, key, out) ==
    IF key \notin DictKeys(e) THEN out = Str("")
    ELSE LET v == DictValue(e, key) IN
         IF "dict" \in DOMAIN v
         THEN IF "realname" \in DictKeys(v.dict)
              THEN out = DictValue(v.dict, "realname")
              ELSE out = Str("")
         ELSE IF v = Null THEN out = Str("None")
         ELSE IF v = Num(7) THEN out = Str("7")
         ELSE out = v

\* C23: each person field (PM, assignedTo, openedBy) of every record a
\* list operation returns is the realname of the backend's value when that
\* is a structured record (the empty string if it has none), the empty
\* string when the field is absent, and the string form of the value
\* otherwise; the records are returned one per entry, in the answer's order.
C23_PersonFieldsNormalized ==
    (cfn \in ZentaoListMethods /\ cdone) =>
        LET entries == ListOf(Answered, LListKey) IN
        /\ Len(cout.value) = Len(entries)
        /\ \A i \in 1..Len(entries) : \A key \in LPersonFields :
              /\ key \in DictKeys(cout.value[i])
              /\ LNormalized(entries[i], key, DictValue(cout.value[i], key))

C23_Witness ==
    /\ cfn = "list_bugs" /\ cdone
    /\ Len(cout.value) = 2
    /\ DictValue(cout.value[1], "assignedTo") = Str("Wang")
    /\ DictValue(cout.value[1], "openedBy") = Str("None")
    /\ DictValue(cout.value[2], "assignedTo") = Str("")
    /\ "assignedTo" \notin DictKeys(Answered.list[2])
    /\ DictValue(cout.value[2], "openedBy") = Str("7")

(***************************************************************************)
(* Properties of load_config (SpecLoadConfig).                             *)
(***************************************************************************)
\* The value setting k resolves to: the environment variable when it is
\* set, else the config-file value, else the default.
FResolved(k) ==
    IF cargs.env[k] # Absent THEN cargs.env[k]
    ELSE IF cargs.file[k] # Absent THEN cargs.file[k]
    ELSE SettingDefault[k]

\* C24: load_config resolves each setting to its environment variable when
\* that variable is set and otherwise to the config-file value; it returns
\* the config only when the resolved GitHub token and the resolved Slack
\* bot token are both non-empty, and otherwise raises ValueError, for the
\* GitHub token when that is missing (whatever the Slack token is) and for
\* the Slack token only when the GitHub token is there.
C24_EnvOverFileAndRequiredTokens ==
    (cfn = "load_config" /\ cended) =>
        /\ cout.kind = "return" <=>
              (FResolved("github_token") # "" /\ FResolved("slack_bot_token") # "")
        /\ cout.kind = "return" => \A k \in Settings : cout.config[k] = FResolved(k)
        /\ cout.kind # "return" =>
              /\ cout.kind = "raise" /\ cout.type = "ValueError"
              /\ cout.missing = (IF FResolved("github_token") = ""
                                 THEN "GitHub Token" ELSE "Slack Bot Token")

C24_Witness ==
    /\ cfn = "load_config" /\ cended
    /\ cargs.env.github_token = ""
    /\ cargs.file.github_token = "file"
    /\ cargs.env.slack_bot_token = Absent
    /\ cargs.file.slack_bot_token = Absent
    /\ cout.kind = "raise"
    /\ cout.missing = "GitHub Token"

(***************************************************************************)
(* Properties of a cache once it is non-empty (SpecSlackOps).              *)
(***************************************************************************)
\* Call c has ended, by a return or by the SlackApiError of its scan.
SEnded(c) == spc[c] \in {"done", "failed"}

\* Call d, started after call c, works on the cache call c worked on.
SLaterOnSameCache(c, d) ==
    c < d /\ sfn[c] # None /\ sfn[d] # None /\ SOnUsers(c) = SOnUsers(d)

\* The cache call c works on.
SCacheOf(c) == IF SOnUsers(c) THEN userCache ELSE channelCache

\* What call d returns against the cache given, without a scan.
SResultAgainst(d, cache) ==
    IF SOnUsers(d) THEN UsersResult(sfn[d], sarg[d], cache)
    ELSE ChannelsResult(sfn[d], sarg[d], cache, FALSE)

\* C27: in a sequential run, once a call has left its cache non-empty, by
\* a completed scan or by a scan that failed after storing some pages,
\* every later call on that cache sends no listing request, leaves the
\* cache as it was and returns what the cache as it was gives: the entries
\* of the pages that were not read are never loaded.
C27_NonEmptyCacheIsFinal ==
    /\ [](\A c, d \in SCalls :
            (SLaterOnSameCache(c, d) /\ SEnded(c) /\ safter[c] # <<>>) =>
                /\ spc[d] = "done"
                /\ slist[d] = <<>>
                /\ safter[d] = safter[c]
                /\ SCacheOf(d) = safter[c]
                /\ sres[d] = SResultAgainst(d, safter[c])
                /\ spc[c] = "failed" => SCacheOf(d) = SStored(c, SFailedPage(c) - 1))
    /\ [][/\ (SQuiet /\ userCache # <<>>) => userCache' = userCache
          /\ (SQuiet /\ channelCache # <<>>) => channelCache' = channelCache]_vars

\* The users.list scan of list_workspace_members failed at page 2 after
\* page 1 had stored U1; the later find_user_by_name returned U1 for a
\* name that is the display name of U2, a user of page 2.
C27_Witness ==
    \E c, d \in SCalls :
        /\ c < d
        /\ sfn[c] = "list_workspace_members" /\ spc[c] = "failed"
        /\ SFailedPage(c) = 2
        /\ sfn[d] = "find_user_by_name" /\ spc[d] = "done"
        /\ slist[d] = <<>>
        /\ sres[d].id = "U1"
        /\ FindUserByName(StoredUsers(userDir, Len(userDir)), sarg[d]).id = "U2"

(***************************************************************************)
(* Properties of the Slack tools (SpecSlackTools).                         *)
(***************************************************************************)
\* The client calls of a kind the tool has made.
TCallsOf(kind) == { i \in 1..Len(tlog) : tlog[i].call = kind }

\* validate_and_resolve_channel has returned an error to the tool.
TValidationError ==
    /\ tfn \in ValidatingTools
    /\ Len(tgot) >= 1
    /\ tlog[1].call = "validate_and_resolve_channel"
    /\ "error" \in DOMAIN tgot[1]
    /\ ~tgot[1].error.none

\* C29: in slack_send_message and slack_create_task, when a channel is
\* given and validate_and_resolve_channel reports an error, the tool posts
\* no message and looks up no user, and returns a result with ok = false
\* and that error; when the channel is empty it validates nothing and posts
\* to the default channel.
C29_ChannelValidatedBeforePost ==
    /\ TValidationError =>
           /\ targs.channel # <<>>
           /\ tpc = "done"
           /\ TCallsOf("chat_postMessage") = {}
           /\ TCallsOf("find_user_by_name") = {}
           /\ tres = ToolReturned([ok |-> FALSE, error |-> tgot[1].error.chars])
    /\ (tfn \in ValidatingTools /\ targs.channel = <<>>) =>
           /\ TCallsOf("validate_and_resolve_channel") = {}
           /\ \A i \in TCallsOf("chat_postMessage") : tlog[i].channel = DefaultChannel
           /\ tpc = "done" =>
                  /\ Cardinality(TCallsOf("chat_postMessage")) = 1
                  /\ tres.kind = "return"
                  /\ tres.json.ok = TRUE
    /\ (tfn \in ValidatingTools /\ targs.channel # <<>>) =>
           /\ tlog[1].call = "validate_and_resolve_channel"
           /\ \A i \in TCallsOf("chat_postMessage") :
                  /\ ~TValidationError
                  /\ tlog[i].channel = tgot[1].id

\* slack_create_task with an assignee and a channel that does not resolve:
\* the tool has returned the error, having called nothing else.
C29_Witness ==
    /\ tfn = "slack_create_task"
    /\ targs.assignee # <<>>
    /\ targs.channel = <<"B", "B">>
    /\ TValidationError
    /\ tpc = "done"
    /\ Len(tlog) = 1
    /\ tres.kind = "return"
    /\ tres.json.ok = FALSE

\* C30: for a name that is empty after normalization (empty, whitespace
\* only, or for channels only '#' characters), resolve_channel and
\* find_user_by_name both return None, whatever the caches contain.
C30_EmptyNameNotFound ==
    (rdone /\ rfn \in {"resolve_channel", "find_user_by_name"} /\ RNormalized = <<>>)
        => rres = RNone

====
